---- MODULE Spec2Model ----
(***************************************************************************)
(* A model of Plugwise_Smile/Smile.py: the topology builder                *)
(* (get_all_locations, get_all_appliances, match_locations), the           *)
(* thermostat resolver (scan_thermostats), the device assembler            *)
(* (get_all_devices), the measurement normaliser (_format_measure,         *)
(* get_appliance_data) and the schedule resolver (get_schemas,             *)
(* in_between).                                                            *)
(*                                                                         *)
(* Conventions.  Python's None is the string "None"; the integer location  *)
(* id 0 of the synthesized legacy home is the string "0" (document ids are *)
(* never "0" or "None").  A Python dict is an insertion-ordered pair       *)
(* [keys, val]; an XML document is [none, elems], none = TRUE standing for *)
(* an attribute that is still None.                                        *)
(***************************************************************************)
EXTENDS Integers, Sequences, FiniteSets, TLC

VARIABLES
    \* ---- the client object (Smile.__init__)
    smile_legacy,       \* self._smile_legacy
    smile_type,         \* self.smile_type
    smile_name,         \* self.smile_name
    d_appliances,       \* self._appliances
    d_locations,        \* self._locations
    gateway_id,         \* self.gateway_id
    heater_id,          \* self.heater_id
    home_location,      \* self._home_location
    thermo_master_id,   \* self._thermo_master_id
    \* ---- one run of scan_thermostats, statement by statement
    pc,                 \* position of the running call
    s_locations,        \* local `locations`
    s_appliances,       \* local `appliances`
    s_home,             \* local `home_location`
    s_li,               \* index of the outer loop (locations.items())
    s_ai,               \* index of the inner loop (appliances.items())
    s_high_prio,        \* local `high_prio`
    \* ---- results of the synchronous calls
    last_call,          \* the method called last on the current snapshot
    result,             \* what it returned (err = TRUE: it raised)
    \* ---- arguments and documents of the measurement and schedule methods
    measure_text,       \* the text handed to _format_measure
    element,            \* the <appliance> element get_appliance_data finds
    d_rules,            \* the <rule> elements of self._domain_objects
    arg_loc_id,         \* the loc_id get_schemas is called with
    period,             \* the start and end handed to in_between
    clock,              \* dt.datetime.now(): [weekday, time]
    \* ---- what get_device_data reads besides the appliances and locations
    d_logs,             \* the logs of the appliance elements, by appliance id
    d_direct,           \* self._direct_objects
    d_domain,           \* self._domain_objects, apart from its rules
    arg_dev_id,         \* the dev_id get_device_data is called with
    \* ---- one coroutine (connect, full_update_device, set_*) and the gateway
    n_op,               \* the coroutine that runs or ran last
    n_pc,               \* the await it is suspended at
    n_retry,            \* connect's argument `retry`
    n_req,              \* request's arguments: [command, retry, method, data]
    n_todo,             \* what the coroutine still has to send
    n_fetched,          \* the documents of the client that are not None
    n_requested,        \* the commands request was called with, in order
    n_conn_attempts,    \* GETs sent by the running connect
    n_req_attempts,     \* requests sent for the running call of request
    n_accepted,         \* PUTs of the running coroutine the gateway accepted
    n_body,             \* connect's local `result`: the text of the response
    n_cycle,            \* the calls of full_update_device so far
    n_stored            \* for each document stored, the cycle that fetched it

client_vars == <<smile_legacy, smile_type, smile_name, d_appliances, d_locations,
                 gateway_id, heater_id, home_location, thermo_master_id>>
scan_vars == <<pc, s_locations, s_appliances, s_home, s_li, s_ai, s_high_prio>>
out_vars == <<last_call, result>>
net_vars == <<n_op, n_pc, n_retry, n_req, n_todo, n_fetched, n_requested,
              n_conn_attempts, n_req_attempts, n_accepted, n_body, n_cycle, n_stored>>
arg_vars == <<measure_text, element, d_rules, arg_loc_id, period, clock,
              d_logs, d_direct, d_domain, arg_dev_id, net_vars>>
vars == <<client_vars, scan_vars, out_vars, arg_vars>>

None == "None"
LegacyHome == "0"

-----------------------------------------------------------------------------
(* Python dicts: insertion ordered, assignment to a present key keeps its   *)
(* position.                                                                *)

EmptyDict == [keys |-> <<>>, val |-> <<>>]

HasKey(d, k) == \E i \in 1..Len(d.keys) : d.keys[i] = k

DictSet(d, k, v) ==
    IF HasKey(d, k)
    THEN [keys |-> d.keys, val |-> [d.val EXCEPT ![k] = v]]
    ELSE [keys |-> Append(d.keys, k), val |-> (k :> v) @@ d.val]

KeySet(d) == {d.keys[i] : i \in 1..Len(d.keys)}

Doc(elems) == [none |-> FALSE, elems |-> elems]
NoneDoc == [none |-> TRUE, elems |-> <<>>]

-----------------------------------------------------------------------------
(* Module constants of Smile.py.                                            *)

HOME_MEASUREMENTS ==
    <<  <<"electricity_consumed", "power">>,
        <<"electricity_produced", "power">>,
        <<"gas_consumed", "gas">>,
        <<"outdoor_temperature", "temperature">> >>

thermo_matching ==
    ("thermostat" :> 3) @@ ("zone_thermostat" :> 2)
        @@ ("thermostatic_radiator_valve" :> 1)

SMILES ==
    <<  [legacy |-> FALSE, type |-> "thermostat", friendly_name |-> "Adam"],
        [legacy |-> TRUE,  type |-> "thermostat", friendly_name |-> "Anna"],
        [legacy |-> FALSE, type |-> "power",      friendly_name |-> "P1"],
        [legacy |-> TRUE,  type |-> "power",      friendly_name |-> "P1"] >>

\* The client object as one value, for the methods below.
Self ==
    [legacy |-> smile_legacy, type |-> smile_type, name |-> smile_name,
     appliances |-> d_appliances, locations |-> d_locations,
     gateway_id |-> gateway_id, heater_id |-> heater_id,
     home_location |-> home_location, thermo_master_id |-> thermo_master_id]

-----------------------------------------------------------------------------
(* _types_finder: `logs` maps the type of each point_log the element holds  *)
(* to "its electricity_point_meter has a non-empty id".                     *)

_types_finder(logs) ==
    {HOME_MEASUREMENTS[i][2] : i \in
        {j \in 1..Len(HOME_MEASUREMENTS) :
            /\ HOME_MEASUREMENTS[j][1] \in DOMAIN logs
            /\ \/ HOME_MEASUREMENTS[j][1] = "outdoor_temperature"
               \/ logs[HOME_MEASUREMENTS[j][1]]}}

-----------------------------------------------------------------------------
(* get_all_locations.  A location element is                                *)
(*   [id, name, members, services, logs]; services is the number of         *)
(* children of its <services> element, or -1 when the element is missing.   *)

RECURSIVE LocationsLoop(_, _, _, _)
LocationsLoop(self, i, locations, home) ==
    IF i > Len(self.locations.elems)
    THEN [err |-> FALSE, locations |-> locations, home |-> home]
    ELSE
      LET location == self.locations.elems[i]
          isHome == location.name = "Home"
          probe == self.legacy /\ self.type = "power"
          types1 == IF isHome THEN {"home"} \cup _types_finder(location.logs) ELSE {}
          home1 == IF isHome THEN location.id ELSE home
      IN  IF probe /\ location.services < 0
          THEN [err |-> TRUE, locations |-> locations, home |-> home1]
          ELSE
            LET p1 == probe /\ location.services > 0
                rec == [name |-> IF p1 THEN "Home" ELSE location.name,
                        types |-> IF p1 THEN types1 \cup {"home", "power"} ELSE types1,
                        members |-> location.members]
            IN LocationsLoop(self, i + 1, DictSet(locations, location.id, rec),
                             IF p1 THEN location.id ELSE home1)

\* lines 511-513: r is the outcome of the loop
LocationsReturn(self, r) ==
    [err |-> r.err, locations |-> r.locations, home |-> r.home,
     self |-> IF r.err THEN self ELSE [self EXCEPT !.home_location = r.home]]

\* The synthesized home leaves out the appliances get_all_appliances skips.
LegacyLocations_skipping(self) ==
    IF self.appliances.none
    THEN [err |-> TRUE, locations |-> EmptyDict, home |-> LegacyHome, self |-> self]
    ELSE [err |-> FALSE,
          locations |-> DictSet(EmptyDict, LegacyHome,
              [name |-> "Legacy", types |-> {"temperature"},
               members |-> {self.appliances.elems[i].id :
                               i \in {j \in 1..Len(self.appliances.elems) :
                                   self.appliances.elems[j].type # "open_therm_gateway"}}]),
          home |-> LegacyHome, self |-> self]

\* lines 457-470: the synthesized home of a legacy Anna without locations
LegacyLocations(self) ==
    IF self.appliances.none
    THEN [err |-> TRUE, locations |-> EmptyDict, home |-> LegacyHome, self |-> self]
    ELSE [err |-> FALSE,
          locations |-> DictSet(EmptyDict, LegacyHome,
              [name |-> "Legacy", types |-> {"temperature"},
               members |-> {self.appliances.elems[i].id :
                               i \in 1..Len(self.appliances.elems)}]),
          home |-> LegacyHome, self |-> self]

get_all_locations(self) ==
    IF Len(self.locations.elems) = 0 /\ self.legacy
    THEN LegacyLocations(self)
    ELSE LocationsReturn(self, LocationsLoop(self, 1, EmptyDict, None))

-----------------------------------------------------------------------------
(* get_all_appliances.  An appliance element is                             *)
(*   [id, type, name, location, relay, thermo, logs].                       *)
(* An appliance without a location is given the very set object that is     *)
(* locations[home_location]["types"]: `shared` is that object's content,    *)
(* and an entry with alias = TRUE holds a reference to it.                  *)

RECURSIVE LastOfClass(_, _, _)
LastOfClass(elems, class, old) ==
    IF elems = <<>> THEN old
    ELSE LET a == elems[Len(elems)]
         IN IF a.type = class THEN a.id
            ELSE LastOfClass(SubSeq(elems, 1, Len(elems) - 1), class, old)

\* Keeps open_therm_gateway appliances.
SkipAppliance_keep_all(appliance_class) == FALSE

SkipAppliance(appliance_class) == appliance_class = "open_therm_gateway"

RECURSIVE AppliancesLoop(_, _, _, _)
AppliancesLoop(self, i, appliances, shared) ==
    IF i > Len(self.appliances.elems)
    THEN [keys |-> appliances.keys,
          val |-> [k \in DOMAIN appliances.val |->
                     [name |-> appliances.val[k].name,
                      types |-> IF appliances.val[k].alias THEN shared
                                ELSE appliances.val[k].types,
                      class |-> appliances.val[k].class,
                      location |-> appliances.val[k].location]]]
    ELSE
      LET a == self.appliances.elems[i]
          located == a.location # None
          id == IF ~located /\ a.type = "gateway" THEN self.gateway_id
                ELSE IF ~located /\ a.type = "heater_central" THEN self.heater_id
                ELSE a.id
          nm == IF ~located /\ a.type \in {"gateway", "heater_central"}
                THEN self.name ELSE a.name
          added == IF a.relay THEN {"plug"} ELSE IF a.thermo THEN {"thermostat"} ELSE {}
          rec == [name |-> nm, class |-> a.type, location |-> a.location,
                  alias |-> ~located,
                  types |-> IF located THEN _types_finder(a.logs) \cup added ELSE {}]
      IN  IF SkipAppliance(a.type)
          THEN AppliancesLoop(self, i + 1, appliances, shared)
          ELSE AppliancesLoop(self, i + 1, DictSet(appliances, id, rec),
                              IF located THEN shared ELSE shared \cup added)

\* lines 391-449, with the ids the first loop leaves in self
AppliancesOfDocument(l, self1) ==
    IF /\ ~HasKey(l.locations, l.home)
       /\ \E i \in 1..Len(self1.appliances.elems) :
            /\ ~SkipAppliance(self1.appliances.elems[i].type)
            /\ self1.appliances.elems[i].location = None
    THEN [err |-> TRUE, appliances |-> EmptyDict, self |-> self1]
    ELSE [err |-> FALSE, self |-> self1,
          appliances |-> AppliancesLoop(self1, 1, EmptyDict,
              IF HasKey(l.locations, l.home)
              THEN l.locations.val[l.home].types ELSE {})]

\* lines 391-400: the ids of the gateway and of the heater
FindHeater(self) ==
    [self EXCEPT !.heater_id = LastOfClass(self.appliances.elems, "heater_central", @)]

FindGateway(self) ==
    [self EXCEPT !.gateway_id =
        IF self.legacy /\ self.type = "thermostat" THEN self.heater_id
        ELSE LastOfClass(self.appliances.elems, "gateway", @)]

\* The ids of the gateway and the heater are looked up after the loop that
\* uses them.
AppliancesWith_ids_last(l) ==
    IF l.err THEN [err |-> TRUE, appliances |-> EmptyDict, self |-> l.self]
    ELSE IF l.self.legacy /\ l.self.type = "power"
    THEN [err |-> FALSE, self |-> l.self,
          appliances |-> DictSet(EmptyDict, l.self.home_location,
              [name |-> "Smile P1", types |-> {"power", "home"},
               class |-> "gateway", location |-> l.home])]
    ELSE IF l.self.appliances.none
    THEN [err |-> TRUE, appliances |-> EmptyDict, self |-> l.self]
    ELSE [AppliancesOfDocument(l, l.self) EXCEPT !.self = FindGateway(FindHeater(l.self))]

\* lines 375-449: l is the result of line 373
AppliancesWith(l) ==
    IF l.err THEN [err |-> TRUE, appliances |-> EmptyDict, self |-> l.self]
    ELSE IF l.self.legacy /\ l.self.type = "power"
    THEN [err |-> FALSE, self |-> l.self,
          appliances |-> DictSet(EmptyDict, l.self.home_location,
              [name |-> "Smile P1", types |-> {"power", "home"},
               class |-> "gateway", location |-> l.home])]
    ELSE IF l.self.appliances.none
    THEN [err |-> TRUE, appliances |-> EmptyDict, self |-> l.self]
    ELSE AppliancesOfDocument(l, FindGateway(FindHeater(l.self)))

get_all_appliances(self) == AppliancesWith(get_all_locations(self))

-----------------------------------------------------------------------------
(* match_locations: every location gains the types of its appliances.       *)

\* lines 599-607
MatchWith(l, a) ==
    IF l.err \/ a.err
    THEN [err |-> TRUE, locations |-> EmptyDict, home |-> l.home, self |-> a.self]
    ELSE [err |-> FALSE, home |-> l.home, self |-> a.self,
          locations |->
            [keys |-> l.locations.keys,
             val |-> [k \in DOMAIN l.locations.val |->
                        [l.locations.val[k] EXCEPT !.types = @ \cup
                            UNION {a.appliances.val[x].types :
                                x \in {y \in KeySet(a.appliances) :
                                         a.appliances.val[y].location = k}}]]]]

\* line 597, after line 596
MatchIn(l) == MatchWith(l, get_all_appliances(l.self))

match_locations(self) == MatchIn(get_all_locations(self))

-----------------------------------------------------------------------------
(* scan_thermostats, one statement group at a time.                         *)

\* lines 545-554: which branch initialises the zone
ZoneQualifies(loc_id, location_details, home, legacy) ==
    \/ "thermostat" \in location_details.types /\ loc_id # home
    \/ loc_id = home /\ legacy

\* lines 546-548 / 550-552: dict.update
ZoneInit(location_details) ==
    [master |-> None, master_prio |-> 0, slaves |-> {}] @@ location_details

\* lines 559-562
IsCandidate(loc_id, appliance_details, legacy) ==
    /\ \/ loc_id = appliance_details.location
       \/ legacy /\ appliance_details.location = None
    /\ appliance_details.class \in DOMAIN thermo_matching

\* The new master is crowned without demoting the former one.
Crown_no_demotion(zone, appliance_id, prio) ==
    [zone EXCEPT !.master_prio = prio, !.master = appliance_id]

\* The former master is demoted, and the candidate is put in slaves too.
Crown_and_enslave(zone, appliance_id, prio) ==
    [zone EXCEPT !.slaves = (IF zone.master # None THEN @ \cup {zone.master} ELSE @)
                              \cup {appliance_id},
                 !.master_prio = prio, !.master = appliance_id]

\* lines 567-573
Crown(zone, appliance_id, prio) ==
    [zone EXCEPT !.slaves = IF zone.master # None THEN @ \cup {zone.master} ELSE @,
                 !.master_prio = prio, !.master = appliance_id]

\* The election takes a candidate of equal priority too.
Outranks_or_equal(prio, master_prio) == prio >= master_prio

\* line 565
Outranks(prio, master_prio) == prio > master_prio

\* lines 559-576: one iteration of the inner loop, on the zone's record
ElectStep(zone, loc_id, appliance_id, appliance_details, legacy) ==
    IF IsCandidate(loc_id, appliance_details, legacy)
    THEN LET prio == thermo_matching[appliance_details.class]
         IN  IF Outranks(prio, zone.master_prio)
             THEN Crown(zone, appliance_id, prio)
             ELSE [zone EXCEPT !.slaves = @ \cup {appliance_id}]
    ELSE zone

\* lines 578-582: the highest ranking thermostat, as <<high_prio, id>>
HighStep(high, appliance_id, appliance_details) ==
    IF /\ appliance_details.class \in DOMAIN thermo_matching
       /\ thermo_matching[appliance_details.class] > high[1]
    THEN <<thermo_matching[appliance_details.class], appliance_id>>
    ELSE high

\* The whole call, for the callers of scan_thermostats.
RECURSIVE ScanZone(_, _, _, _, _, _)
ScanZone(zone, high, loc_id, appliances, j, legacy) ==
    IF j > Len(appliances.keys) THEN <<zone, high>>
    ELSE LET k == appliances.keys[j]
         IN ScanZone(ElectStep(zone, loc_id, k, appliances.val[k], legacy),
                     HighStep(high, k, appliances.val[k]),
                     loc_id, appliances, j + 1, legacy)

RECURSIVE ScanLocations(_, _, _, _, _, _)
ScanLocations(locations, high, appliances, i, home, legacy) ==
    IF i > Len(locations.keys) THEN <<locations, high>>
    ELSE LET loc_id == locations.keys[i]
         IN IF ZoneQualifies(loc_id, locations.val[loc_id], home, legacy)
            THEN LET r == ScanZone(ZoneInit(locations.val[loc_id]), high, loc_id,
                                   appliances, 1, legacy)
                 IN ScanLocations(DictSet(locations, loc_id, r[1]), r[2],
                                  appliances, i + 1, home, legacy)
            ELSE ScanLocations(locations, high, appliances, i + 1, home, legacy)

\* line 590: r is the outcome of the loops
ScanResult(m, a, r) ==
    [err |-> FALSE, locations |-> r[1], home |-> m.home,
     self |-> [a.self EXCEPT !.thermo_master_id = r[2][2]]]

\* lines 535-590
ScanWith(m, a) ==
    IF m.err \/ a.err
    THEN [err |-> TRUE, locations |-> EmptyDict, home |-> m.home, self |-> a.self]
    ELSE ScanResult(m, a, ScanLocations(m.locations, <<0, a.self.thermo_master_id>>,
                                        a.appliances, 1, m.home, a.self.legacy))

\* line 533, after line 532
ScanIn(m) == ScanWith(m, get_all_appliances(m.self))

scan_thermostats(self) == ScanIn(match_locations(self))

-----------------------------------------------------------------------------
(* get_all_devices.                                                         *)

\* lines 617-627: one iteration of the loop
Device(details, appliance, thermo_locations, home) ==
    [name |-> details.name, types |-> details.types,
     class |-> IF /\ HasKey(thermo_locations, details.location)
                  /\ "slaves" \in DOMAIN thermo_locations.val[details.location]
                  /\ appliance \in thermo_locations.val[details.location].slaves
               THEN "thermo_sensor" ELSE details.class,
     location |-> IF details.location = None THEN home ELSE details.location]

\* lines 616-629
DevicesWith(a, s) ==
    IF a.err \/ s.err
    THEN [err |-> TRUE, devices |-> EmptyDict, self |-> s.self]
    ELSE [err |-> FALSE, self |-> s.self,
          devices |-> [keys |-> a.appliances.keys,
                       val |-> [k \in DOMAIN a.appliances.val |->
                                  Device(a.appliances.val[k], k, s.locations, s.home)]]]

\* line 614, after line 613
DevicesIn(a) == DevicesWith(a, scan_thermostats(a.self))

get_all_devices(self) == DevicesIn(get_all_appliances(self))

-----------------------------------------------------------------------------
(* Snapshots.  An appliance id names one physical appliance, so its class   *)
(* is fixed; its location, actuators and logs are the document's.           *)

MaxScanAppliances == 3

ClassOf ==
    ("t1" :> "thermostat") @@ ("z1" :> "zone_thermostat") @@ ("z2" :> "zone_thermostat")
    @@ ("v1" :> "thermostatic_radiator_valve") @@ ("p1" :> "plug")
    @@ ("g1" :> "gateway") @@ ("h1" :> "heater_central") @@ ("h2" :> "heater_central")
    @@ ("o1" :> "open_therm_gateway")

NoLogs == <<>>

Appliance(id, loc, relay, thermo, logs) ==
    [id |-> id, type |-> ClassOf[id], name |-> id, location |-> loc,
     relay |-> relay, thermo |-> thermo, logs |-> logs]

Location(id, name, members, services, logs) ==
    [id |-> id, name |-> name, members |-> members, services |-> services,
     logs |-> logs]

\* The sequences of at most n elements of E with pairwise distinct ids.
RECURSIVE DistinctSeqs(_, _)
DistinctSeqs(E, n) ==
    IF n = 0 THEN {<<>>}
    ELSE LET P == DistinctSeqs(E, n - 1)
         IN P \cup UNION {{Append(q, e) :
                              e \in {y \in E : \A i \in 1..Len(q) : q[i].id # y.id}} :
                            q \in {x \in P : Len(x) = n - 1}}

\* The locations document of a thermostat installation, its members taken
\* from the appliances document.
Rooms(appls) ==
    LET in(l) == {appls[i].id : i \in {j \in 1..Len(appls) : appls[j].location = l}}
    IN  << Location("H", "Home", in("H"), 0, NoLogs),
           Location("L1", "Living", in("L1"), 0, NoLogs),
           Location("L2", "Bath", in("L2"), 0, NoLogs) >>

ScanElems ==
    {Appliance(id, loc, FALSE, th, NoLogs) :
        id \in {"t1", "z1", "z2", "v1"}, loc \in {None, "L1", "L2"}, th \in BOOLEAN}

\* <<dialect, appliances, locations>>: Adam, legacy Anna without and with
\* locations.
ScanSnapshots ==
    UNION {{ <<1, a, Rooms(a)>>, <<2, a, <<>> >>, <<2, a, Rooms(a)>> } :
             a \in {x \in DistinctSeqs(ScanElems, MaxScanAppliances) :
                      \A i \in 1..Len(x) : x[i].thermo \/ x[i].id = "v1"}}

NoResult == [err |-> FALSE]

InitClient(dialect, appls, locs) ==
    /\ smile_legacy = SMILES[dialect].legacy
    /\ smile_type = SMILES[dialect].type
    /\ smile_name = SMILES[dialect].friendly_name
    /\ d_appliances = appls
    /\ d_locations = locs
    /\ gateway_id = None
    /\ heater_id = None
    /\ home_location = None
    /\ thermo_master_id = None

InitScanLocals ==
    /\ pc = "idle"
    /\ s_locations = EmptyDict
    /\ s_appliances = EmptyDict
    /\ s_home = None
    /\ s_li = 0
    /\ s_ai = 0
    /\ s_high_prio = 0

InitOut ==
    /\ last_call = "none"
    /\ result = NoResult

NoDirect == [locations |-> <<>>, illuminance |-> <<>>, outdoor_temperature |-> <<>>]
NoDomain == [preset |-> <<>>, icon |-> None, presets |-> <<>>, schedule_state |-> None,
             modified_date |-> <<>>]

\* The text of a <firmware_version>: kind "semver" with its major and minor,
\* "malformed" (semver.parse raises), "none" (an empty element) or "absent"
\* (no element).
Version(kind, major, minor) == [kind |-> kind, major |-> major, minor |-> minor]
SemVer(major, minor) == Version("semver", major, minor)

Absent == "absent"

\* No response has been read.
NoBody ==
    [vendor |-> FALSE, dsmr |-> FALSE, gateway |-> FALSE, anna |-> FALSE,
     model |-> "", version |-> Version("absent", "", "")]

NoRequest == [command |-> None, retry |-> 0, method |-> None, data |-> None]

\* No coroutine runs.
InitNoNet ==
    /\ n_op = None
    /\ n_pc = "idle"
    /\ n_retry = 0
    /\ n_req = NoRequest
    /\ n_todo = <<>>
    /\ n_fetched = {}
    /\ n_requested = <<>>
    /\ n_conn_attempts = 0
    /\ n_req_attempts = 0
    /\ n_accepted = 0
    /\ n_body = NoBody
    /\ n_cycle = 0
    /\ n_stored = <<>>

InitNoDevice ==
    /\ d_logs = <<>>
    /\ d_direct = NoDirect
    /\ d_domain = NoDomain
    /\ arg_dev_id = None
    /\ InitNoNet

NoText == [kind |-> "word", w |-> ""]
NoElement == [point |-> <<>>, interval |-> <<>>, cumulative |-> <<>>]

InitNoMeasure ==
    /\ measure_text = NoText
    /\ element = NoElement

InitNoRules ==
    /\ d_rules = <<>>
    /\ arg_loc_id = None
    /\ period = [start |-> 0, end |-> 0]
    /\ clock = [weekday |-> 0, time |-> 0]

SetSelf(self) ==
    /\ gateway_id' = self.gateway_id
    /\ heater_id' = self.heater_id
    /\ home_location' = self.home_location
    /\ thermo_master_id' = self.thermo_master_id
    /\ UNCHANGED <<smile_legacy, smile_type, smile_name, d_appliances, d_locations>>

\* The client as constructed, holding the documents: no id found yet.
FreshSelf ==
    [Self EXCEPT !.gateway_id = None, !.heater_id = None,
                 !.home_location = None, !.thermo_master_id = None]

-----------------------------------------------------------------------------
(* scan_thermostats as a process: SpecScan.                                 *)

InitScan ==
    /\ \E s \in ScanSnapshots : InitClient(s[1], Doc(s[2]), Doc(s[3]))
    /\ InitScanLocals
    /\ InitOut
    /\ InitNoDevice
    /\ InitNoMeasure
    /\ InitNoRules

\* lines 532-541
ScanEnter(m, a) ==
    /\ SetSelf(a.self)
    /\ pc' = IF m.err \/ a.err THEN "error" ELSE "zone"
    /\ s_locations' = m.locations
    /\ s_appliances' = a.appliances
    /\ s_home' = m.home
    /\ s_li' = 1
    /\ s_ai' = 0
    /\ s_high_prio' = 0

ScanEnterIn(m) == ScanEnter(m, get_all_appliances(m.self))

ScanCall ==
    /\ pc = "idle"
    /\ ScanEnterIn(match_locations(Self))
    /\ UNCHANGED out_vars
    /\ UNCHANGED arg_vars

CurLoc == s_locations.keys[s_li]

\* lines 542-552
ScanZoneInit ==
    /\ pc = "zone"
    /\ s_li <= Len(s_locations.keys)
    /\ ZoneQualifies(CurLoc, s_locations.val[CurLoc], s_home, smile_legacy)
    /\ s_locations' = DictSet(s_locations, CurLoc, ZoneInit(s_locations.val[CurLoc]))
    /\ s_ai' = 1
    /\ pc' = "appliance"
    /\ UNCHANGED <<client_vars, s_appliances, s_home, s_li, s_high_prio, out_vars>>
    /\ UNCHANGED arg_vars

\* lines 553-554
ScanZoneSkip ==
    /\ pc = "zone"
    /\ s_li <= Len(s_locations.keys)
    /\ ~ZoneQualifies(CurLoc, s_locations.val[CurLoc], s_home, smile_legacy)
    /\ s_li' = s_li + 1
    /\ UNCHANGED <<client_vars, pc, s_locations, s_appliances, s_home, s_ai,
                   s_high_prio, out_vars>>
    /\ UNCHANGED arg_vars

\* lines 556-582
ScanAppliance ==
    /\ pc = "appliance"
    /\ s_ai <= Len(s_appliances.keys)
    /\ LET k == s_appliances.keys[s_ai]
           high == HighStep(<<s_high_prio, thermo_master_id>>, k, s_appliances.val[k])
       IN  /\ s_locations' = DictSet(s_locations, CurLoc,
                ElectStep(s_locations.val[CurLoc], CurLoc, k, s_appliances.val[k],
                          smile_legacy))
           /\ s_high_prio' = high[1]
           /\ thermo_master_id' = high[2]
    /\ s_ai' = s_ai + 1
    /\ UNCHANGED <<smile_legacy, smile_type, smile_name, d_appliances, d_locations,
                   gateway_id, heater_id, home_location, pc, s_appliances, s_home,
                   s_li, out_vars>>
    /\ UNCHANGED arg_vars

\* lines 584-587, and back to line 542
ScanZoneDone ==
    /\ pc = "appliance"
    /\ s_ai > Len(s_appliances.keys)
    /\ pc' = "zone"
    /\ s_li' = s_li + 1
    /\ s_ai' = 0
    /\ UNCHANGED <<client_vars, s_locations, s_appliances, s_home, s_high_prio,
                   out_vars>>
    /\ UNCHANGED arg_vars

\* line 590
ScanReturn ==
    /\ pc = "zone"
    /\ s_li > Len(s_locations.keys)
    /\ pc' = "done"
    /\ UNCHANGED <<client_vars, s_locations, s_appliances, s_home, s_li, s_ai,
                   s_high_prio, out_vars>>
    /\ UNCHANGED arg_vars

\* lines 613-629 of get_all_devices, for the scan it called at line 614:
\* the appliances of line 613 are those of the client as it was before the
\* scan, thermo_locations and home_location are what the scan returned.
ScanDevices ==
    /\ pc = "done"
    /\ pc' = "devices"
    /\ last_call' = "get_all_devices"
    /\ result' = [err |-> FALSE,
                  devices |-> DevicesWith(get_all_appliances(FreshSelf),
                                 [err |-> FALSE, locations |-> s_locations,
                                  home |-> s_home, self |-> Self]).devices]
    /\ UNCHANGED <<client_vars, s_locations, s_appliances, s_home, s_li, s_ai,
                   s_high_prio>>
    /\ UNCHANGED arg_vars

NextScan ==
    \/ ScanCall
    \/ ScanZoneInit
    \/ ScanZoneSkip
    \/ ScanAppliance
    \/ ScanZoneDone
    \/ ScanReturn
    \/ ScanDevices

SpecScan == InitScan /\ [][NextScan]_vars

-----------------------------------------------------------------------------
(* The synchronous calls on a long-lived client whose documents are         *)
(* replaced poll after poll: SpecPoll.                                      *)

MaxPollAppliances == 3

PollElems ==
    {Appliance("g1", None, FALSE, FALSE, NoLogs),
     Appliance("h1", None, FALSE, FALSE, NoLogs),
     Appliance("o1", None, FALSE, FALSE, NoLogs),
     Appliance("t1", None, FALSE, TRUE, NoLogs),
     Appliance("t1", "L1", FALSE, TRUE, NoLogs)}

\* The locations documents of a P1: none, a location with services, a
\* location without a <services> element, a location named Home.
PowerLocations ==
    { <<>>,
      << Location("P", "abc", {}, 2, NoLogs) >>,
      << Location("P", "abc", {}, -1, NoLogs) >>,
      << Location("H", "Home", {}, 0, ("electricity_consumed" :> TRUE)) >> }

\* <<appliances, locations>> of one poll, by dialect (an index of SMILES).
\* A legacy P1 never requests the appliances (update_appliances, line 294).
PollSnapshots(dialect) ==
    IF SMILES[dialect].type = "thermostat"
    THEN UNION {{ <<Doc(a), Doc(<<>>)>>, <<Doc(a), Doc(Rooms(a))>> } :
                  a \in DistinctSeqs(PollElems, MaxPollAppliances)}
    ELSE IF SMILES[dialect].legacy
    THEN {<<NoneDoc, Doc(l)>> : l \in PowerLocations}
    ELSE {<<Doc(a), Doc(l)>> : a \in DistinctSeqs(PollElems, 1), l \in PowerLocations}

InitPoll ==
    /\ \E dialect \in 1..Len(SMILES) :
         \E s \in PollSnapshots(dialect) : InitClient(dialect, s[1], s[2])
    /\ InitScanLocals
    /\ InitOut
    /\ InitNoDevice
    /\ InitNoMeasure
    /\ InitNoRules

Dialect == CHOOSE d \in 1..Len(SMILES) :
              SMILES[d].legacy = smile_legacy /\ SMILES[d].type = smile_type

\* full_update_device has replaced the documents (lines 297-320).
NewSnapshot ==
    /\ \E s \in PollSnapshots(Dialect) :
         /\ d_appliances' = s[1]
         /\ d_locations' = s[2]
    /\ last_call' = "none"
    /\ result' = NoResult
    /\ UNCHANGED <<smile_legacy, smile_type, smile_name, gateway_id, heater_id,
                   home_location, thermo_master_id, scan_vars>>
    /\ UNCHANGED arg_vars

Returned(call, r, value) ==
    /\ SetSelf(r.self)
    /\ last_call' = call
    /\ result' = value
    /\ UNCHANGED <<scan_vars, arg_vars>>

LocationsReturned(r) ==
    Returned("get_all_locations", r,
             [err |-> r.err, locations |-> r.locations, home |-> r.home])

AppliancesReturned(r) ==
    Returned("get_all_appliances", r, [err |-> r.err, appliances |-> r.appliances])

DevicesReturned(r) ==
    Returned("get_all_devices", r, [err |-> r.err, devices |-> r.devices])

CallGetAllLocations == LocationsReturned(get_all_locations(Self))

CallGetAllAppliances == AppliancesReturned(get_all_appliances(Self))

CallGetAllDevices == DevicesReturned(get_all_devices(Self))

NextPoll ==
    \/ NewSnapshot
    \/ CallGetAllLocations
    \/ CallGetAllAppliances
    \/ CallGetAllDevices

SpecPoll == InitPoll /\ [][NextPoll]_vars

-----------------------------------------------------------------------------
(* Measurement texts and Python numbers.  The text of a <measurement> is    *)
(* [kind |-> "num", neg, ip, frac]: an optional minus sign, the integer     *)
(* part and the digits after the decimal point (frac = <<>>: no point), or  *)
(* [kind |-> "word", w].  A Python value is [type, v]; a float carries its  *)
(* value in hundredths, which every float _format_measure returns is.       *)

Num(neg, ip, frac) == [kind |-> "num", neg |-> neg, ip |-> ip, frac |-> frac]
Word(w) == [kind |-> "word", w |-> w]

PyInt(v) == [type |-> "int", v |-> v]
PyFloat(hundredths) == [type |-> "float", v |-> hundredths]
PyBool(b) == [type |-> "bool", v |-> b]
PyStr(w) == [type |-> "str", v |-> w]

RECURSIVE Pow10(_)
Pow10(n) == IF n = 0 THEN 1 ELSE 10 * Pow10(n - 1)

RECURSIVE DigitsValue(_)
DigitsValue(digits) ==
    IF digits = <<>> THEN 0
    ELSE 10 * DigitsValue(SubSeq(digits, 1, Len(digits) - 1)) + digits[Len(digits)]

\* The magnitude of a numeric text, in units of 10^-Len(frac).
Units(measure) == measure.ip * Pow10(Len(measure.frac)) + DigitsValue(measure.frac)

Signed(measure, magnitude) == IF measure.neg THEN 0 - magnitude ELSE magnitude

\* int(measure) raises ValueError unless the text is a plain integer.
IntLiteral(measure) == measure.kind = "num" /\ measure.frac = <<>>

\* float(measure) raises ValueError on a text that is not a number.
FloatLiteral(measure) == measure.kind = "num"

(* float(measure) is the IEEE-754 double nearest to the decimal.  For the   *)
(* decimal k/den the 53 bits of the mantissa come out of a long division in *)
(* base 2; what is left of it tells on which side of the decimal the double *)
(* lies, which is what decides round() on a decimal tie.                    *)
RECURSIVE BitLen(_)
BitLen(n) == IF n = 0 THEN 0 ELSE 1 + BitLen(n \div 2)

RECURSIVE MantissaTail(_, _, _, _)
MantissaTail(r, den, bits, last) ==
    IF bits = 0 THEN <<r, last>>
    ELSE MantissaTail((2 * r) % den, den, bits - 1, (2 * r) \div den)

RECURSIVE FirstBit(_, _)
FirstBit(r, den) == IF 2 * r >= den THEN (2 * r) % den ELSE FirstBit(2 * r, den)

\* -1, 0, 1: the double is below, equal to, above the decimal (half to even).
TailError(tail, den) ==
    IF tail[1] = 0 THEN 0
    ELSE IF 2 * tail[1] > den THEN 1
    ELSE IF 2 * tail[1] < den THEN 0 - 1
    ELSE IF tail[2] = 1 THEN 1 ELSE 0 - 1

FloatError(k, den) ==
    IF k \div den > 0
    THEN TailError(MantissaTail(k % den, den, 53 - BitLen(k \div den), (k \div den) % 2), den)
    ELSE IF k = 0 THEN 0
    ELSE TailError(MantissaTail(FirstBit(k, den), den, 52, 1), den)

\* round(float(measure), p) of the magnitude k / 10^n, in units of 10^-p:
\* correctly rounded from the double, half to even when the double is the tie.
RoundTie(q, error) ==
    IF error > 0 THEN q + 1
    ELSE IF error < 0 THEN q
    ELSE IF q % 2 = 0 THEN q ELSE q + 1

RoundUnits(k, n, unit) ==
    IF 2 * (k % unit) < unit THEN k \div unit
    ELSE IF 2 * (k % unit) > unit THEN k \div unit + 1
    ELSE RoundTie(k \div unit, FloatError(k, Pow10(n)))

round(k, n, p) == IF n <= p THEN k * Pow10(p - n) ELSE RoundUnits(k, n, Pow10(n - p))

\* float(measure) < 10 (10 is a double, and no text of the model is within
\* half an ulp of it, so the doubles compare as the decimals do).
BelowTen(measure) == Signed(measure, Units(measure)) < 10 * Pow10(Len(measure.frac))

\* lines 757-760
FormatFloat(measure) ==
    IF BelowTen(measure)
    THEN PyFloat(Signed(measure, round(Units(measure), Len(measure.frac), 2)))
    ELSE PyFloat(Signed(measure, 10 * round(Units(measure), Len(measure.frac), 1)))

\* lines 761-766
FormatWord(measure) ==
    IF measure.w = "on" THEN PyBool(TRUE)
    ELSE IF measure.w = "off" THEN PyBool(FALSE)
    ELSE PyStr(measure.w)

_format_measure_float_first(measure) ==
    IF FloatLiteral(measure) THEN FormatFloat(measure)
    ELSE IF IntLiteral(measure) THEN PyInt(Signed(measure, measure.ip))
    ELSE FormatWord(measure)

\* lines 751-766
_format_measure(measure) ==
    IF IntLiteral(measure) THEN PyInt(Signed(measure, measure.ip))
    ELSE IF FloatLiteral(measure) THEN FormatFloat(measure)
    ELSE FormatWord(measure)

-----------------------------------------------------------------------------
(* _format_measure on the texts a Smile reports: SpecFmt.                    *)

MaxFracDigits == 3
FracDigits == {0, 1, 3, 4, 5, 9}
IntParts == {0, 2, 3, 4, 9, 10, 12}
Words == {"on", "off", "auto"}

Measures ==
    {Num(neg, ip, frac) : neg \in BOOLEAN, ip \in IntParts,
                          frac \in UNION {[1..n -> FracDigits] : n \in 0..MaxFracDigits}}
    \cup {Word(w) : w \in Words}

InitFmt ==
    /\ InitClient(1, NoneDoc, NoneDoc)
    /\ InitScanLocals
    /\ InitOut
    /\ InitNoDevice
    /\ measure_text \in Measures
    /\ element = NoElement
    /\ InitNoRules

CallFormatMeasure ==
    /\ last_call = "none"
    /\ last_call' = "_format_measure"
    /\ result' = [err |-> FALSE, value |-> _format_measure(measure_text)]
    /\ UNCHANGED <<client_vars, scan_vars, arg_vars>>

NextFmt == CallFormatMeasure

SpecFmt == InitFmt /\ [][NextFmt]_vars

-----------------------------------------------------------------------------
(* get_appliance_data.  The appliance element found for dev_id is           *)
(*   [point, interval, cumulative]: for each kind of log, the text of the   *)
(* measurement by log type.  `data` maps the keys set so far to values.     *)

DEVICE_MEASUREMENTS ==
    << <<"thermostat", "setpoint">>,
       <<"temperature", "temperature">>,
       <<"schedule_temperature", "schedule_temperature">>,
       <<"battery", "battery">>,
       <<"valve_position", "valve_position">>,
       <<"temperature_difference", "temperature_difference">>,
       <<"electricity_consumed", "electricity_consumed">>,
       <<"electricity_produced", "electricity_produced">>,
       <<"relay", "relay">>,
       <<"outdoor_temperature", "outdoor_temperature">>,
       <<"intended_central_heating_state", "heating_state">>,
       <<"domestic_hot_water_state", "dhw_state">>,
       <<"boiler_temperature", "water_temperature">>,
       <<"return_water_temperature", "return_temperature">>,
       <<"central_heater_water_pressure", "water_pressure">>,
       <<"boiler_state", "boiler_state">>,
       <<"intended_boiler_state", "intended_boiler_state">>,
       <<"intended_boiler_temperature", "intended_boiler_temperature">>,
       <<"modulation_level", "modulation_level">>,
       <<"cooling_state", "cooling_state">>,
       <<"slave_boiler_state", "slave_boiler_state">>,
       <<"compressor_state", "compressor_state">>,
       <<"flame_state", "flame_state">>
    >>

Store(data, name, value) == (name :> value) @@ data

Unrealistic_from(measure) ==
    2 * Signed(measure, Units(measure)) >= 7 * Pow10(Len(measure.frac))

\* line 729: float(measure) > 3.5 (3.5 is a double, and no text of the model
\* is within half an ulp of it).
Unrealistic(measure) ==
    2 * Signed(measure, Units(measure)) > 7 * Pow10(Len(measure.frac))

\* lines 741-746, on the name the interval log may have rebound
CumulativeLog(appliance, measurement, name, data) ==
    IF measurement \in DOMAIN appliance.cumulative
    THEN Store(data, name \o "_cumulative",
               _format_measure(appliance.cumulative[measurement]))
    ELSE data

\* lines 734-746
IntervalLog(appliance, measurement, name, data) ==
    IF measurement \in DOMAIN appliance.interval
    THEN CumulativeLog(appliance, measurement, name \o "_interval",
                       Store(data, name \o "_interval",
                             _format_measure(appliance.interval[measurement])))
    ELSE CumulativeLog(appliance, measurement, name, data)

\* lines 720-746: one measurement type; skip = `continue`
Measurement(legacy, appliance, measurement, name, data) ==
    IF measurement \notin DOMAIN appliance.point
    THEN [err |-> FALSE, data |-> IntervalLog(appliance, measurement, name, data)]
    ELSE IF legacy /\ measurement = "domestic_hot_water_state"
    THEN [err |-> FALSE, data |-> data]
    ELSE IF measurement # "central_heater_water_pressure"
    THEN [err |-> FALSE,
          data |-> IntervalLog(appliance, measurement, name,
                       Store(data, name, _format_measure(appliance.point[measurement])))]
    ELSE IF ~FloatLiteral(appliance.point[measurement])
    THEN [err |-> TRUE, data |-> data]
    ELSE IF Unrealistic(appliance.point[measurement])
    THEN [err |-> FALSE, data |-> data]
    ELSE [err |-> FALSE,
          data |-> IntervalLog(appliance, measurement, name,
                       Store(data, name, _format_measure(appliance.point[measurement])))]

RECURSIVE MeasurementsLoop(_, _, _, _)
MeasurementsLoop(legacy, appliance, i, r) ==
    IF r.err \/ i > Len(DEVICE_MEASUREMENTS) THEN r
    ELSE MeasurementsLoop(legacy, appliance, i + 1,
             Measurement(legacy, appliance, DEVICE_MEASUREMENTS[i][1],
                         DEVICE_MEASUREMENTS[i][2], r.data))

\* lines 699-748, for the one element with the id asked for
get_appliance_data(self, appliance) ==
    MeasurementsLoop(self.legacy, appliance, 1, [err |-> FALSE, data |-> <<>>])

-----------------------------------------------------------------------------
(* get_appliance_data on the logs of a heater or a plug: SpecData.           *)

MaxBar == 4
PressureFracs == {<<>>, <<0>>, <<1>>, <<5>>, <<5, 1>>, <<4, 9>>}
PressureTexts ==
    {Num(FALSE, ip, frac) : ip \in 0..MaxBar, frac \in PressureFracs}

Log(present, measurement, text) == IF present THEN measurement :> text ELSE <<>>

Elements ==
    {[point |-> Log(logs[4], "central_heater_water_pressure", pressure)
                @@ Log(dhw, "domestic_hot_water_state", Word("on"))
                @@ Log(logs[1], "electricity_consumed", Num(FALSE, 12, <<3, 4>>)),
      interval |-> Log(logs[2], "electricity_consumed", Num(FALSE, 2, <<>>))
                   @@ Log(logs[2] /\ dhw, "central_heater_water_pressure",
                          Num(FALSE, 2, <<1>>)),
      cumulative |-> Log(logs[3], "electricity_consumed", Num(FALSE, 9, <<3, 4, 5>>))] :
        pressure \in PressureTexts, dhw \in BOOLEAN,
        logs \in BOOLEAN \X BOOLEAN \X BOOLEAN \X BOOLEAN}

InitData ==
    /\ \E dialect \in 1..2 : InitClient(dialect, Doc(<<>>), Doc(<<>>))
    /\ InitScanLocals
    /\ InitOut
    /\ InitNoDevice
    /\ measure_text = NoText
    /\ element \in Elements
    /\ InitNoRules

DataReturned(r) ==
    /\ last_call' = "get_appliance_data"
    /\ result' = [err |-> r.err, value |-> r.data]
    /\ UNCHANGED <<client_vars, scan_vars, arg_vars>>

CallGetApplianceData ==
    /\ last_call = "none"
    /\ DataReturned(get_appliance_data(Self, element))

NextData == CallGetApplianceData

SpecData == InitData /\ [][NextData]_vars

-----------------------------------------------------------------------------
(* The schedule resolver.  A <rule> element is                               *)
(*   [id, name, tag, location, active, directives]: tag is the tag of its   *)
(* template, location the id of the location in its contexts (None: no      *)
(* location), directives its <directives> element (NoneDoc: missing).  A    *)
(* directive is [time, preset, key, setpoint]: the time attribute as        *)
(* [d1, t1, d2, t2] for "[d1 t1,d2 t2)" with the times in minutes, the      *)
(* preset named by the directive or by its <then>, the first key of <then>, *)
(* and the setpoint <then> carries.  Setpoints are whole degrees.           *)

PyNone == [type |-> "NoneType", v |-> 0]

in_between_closed(now, start, end) ==
    IF start <= end THEN start <= now /\ now <= end
    ELSE start <= now \/ now <= end

\* lines 999-1003
in_between(now, start, end) ==
    IF start <= end THEN start <= now /\ now < end
    ELSE start <= now \/ now < end

\* lines 1032-1045; the empty dict stands for the None returned
RECURSIVE get_rule_ids_by_tag(_, _, _, _, _)
get_rule_ids_by_tag(rules, tag, location, i, schema_ids) ==
    IF i > Len(rules) THEN schema_ids
    ELSE get_rule_ids_by_tag(rules, tag, location, i + 1,
             IF rules[i].tag # tag THEN schema_ids
             ELSE DictSet(schema_ids, rules[i].id,
                          IF rules[i].location = location THEN location ELSE None))

\* lines 1047-1056
RECURSIVE get_rule_ids_by_name(_, _, _, _, _)
get_rule_ids_by_name(rules, name, location, i, schema_ids) ==
    IF i > Len(rules) THEN schema_ids
    ELSE get_rule_ids_by_name(rules, name, location, i + 1,
             IF rules[i].name = name /\ rules[i].location = location
             THEN DictSet(schema_ids, rules[i].id, location)
             ELSE schema_ids)

\* find("rule[@id='...']")
RuleById(rules, rule_id) ==
    rules[CHOOSE i \in 1..Len(rules) :
              /\ rules[i].id = rule_id
              /\ \A j \in 1..(i - 1) : rules[j].id # rule_id]

\* lines 873-882: the heating setpoint of each preset
RECURSIVE PresetDirectives(_, _, _)
PresetDirectives(directives, i, presets) ==
    IF i > Len(directives) THEN presets
    ELSE PresetDirectives(directives, i + 1,
             (directives[i].preset :> directives[i].setpoint) @@ presets)

\* lines 868-884; iterating a missing <directives> raises
RECURSIVE PresetRules(_, _, _, _)
PresetRules(rules, rule_ids, i, r) ==
    IF r.err \/ i > Len(rule_ids.keys) THEN r
    ELSE IF RuleById(rules, rule_ids.keys[i]).directives.none
    THEN [r EXCEPT !.err = TRUE]
    ELSE PresetRules(rules, rule_ids, i + 1,
             [r EXCEPT !.presets =
                 PresetDirectives(RuleById(rules, rule_ids.keys[i]).directives.elems, 1, @)])

PresetsOf(rules, rule_ids) ==
    IF rule_ids.keys = <<>>
    THEN [err |-> FALSE, none |-> TRUE, presets |-> <<>>]
    ELSE PresetRules(rules, rule_ids, 1, [err |-> FALSE, none |-> FALSE, presets |-> <<>>])

PresetsByName(rules, location, by_tag) ==
    IF by_tag.keys # <<>> THEN PresetsOf(rules, by_tag)
    ELSE PresetsOf(rules, get_rule_ids_by_name(rules, "Thermostat presets", location, 1,
                                               EmptyDict))

\* lines 854-884, non-legacy
get_presets(rules, location) ==
    PresetsByName(rules, location,
        get_rule_ids_by_tag(rules, "zone_setpoint_and_state_based_on_preset", location, 1,
                            EmptyDict))

\* lines 960-962: get_presets(loc_id)[schedule["preset"]][0]
PresetSetpoint(r, schedules, directive, presets) ==
    IF presets.err \/ presets.none \/ directive.preset \notin DOMAIN presets.presets
    THEN [r EXCEPT !.err = TRUE]
    ELSE [r EXCEPT !.schedules =
             DictSet(schedules, directive.time, presets.presets[directive.preset])]

\* lines 956-966
RECURSIVE Schedules(_, _, _, _, _)
Schedules(rules, location, directives, i, r) ==
    IF r.err \/ i > Len(directives) THEN r
    ELSE Schedules(rules, location, directives, i + 1,
             IF directives[i].key = "preset"
             THEN PresetSetpoint(r, r.schedules, directives[i], get_presets(rules, location))
             ELSE [r EXCEPT !.schedules =
                      DictSet(@, directives[i].time, directives[i].setpoint)])

days == ("mo" :> 0) @@ ("tu" :> 1) @@ ("we" :> 2) @@ ("th" :> 3) @@ ("fr" :> 4)
        @@ ("sa" :> 5) @@ ("su" :> 6)

\* lines 972-980: days.get(day, "None") == weekday
OnDay(day, weekday) == day \in DOMAIN days /\ days[day] = weekday

\* lines 977-981
Matches(moment, time) ==
    /\ OnDay(time.d1, moment.weekday) \/ OnDay(time.d2, moment.weekday)
    /\ in_between(moment.time, time.t1, time.t2)

\* lines 968-982
RECURSIVE Periods(_, _, _, _)
Periods(schedules, moment, i, schedule_temperature) ==
    IF i > Len(schedules.keys) THEN schedule_temperature
    ELSE Periods(schedules, moment, i + 1,
             IF Matches(moment, schedules.keys[i])
             THEN PyFloat(100 * schedules.val[schedules.keys[i]])
             ELSE schedule_temperature)

\* lines 989-996
RECURSIVE determine_selected(_, _, _, _)
determine_selected(available, selected, schemas, i) ==
    IF i > Len(schemas.keys) THEN [available |-> available, selected |-> selected]
    ELSE determine_selected(Append(available, schemas.keys[i]),
                            IF schemas.val[schemas.keys[i]] THEN schemas.keys[i]
                            ELSE selected,
                            schemas, i + 1)

\* lines 968-982, on the schedules of one rule
WithSchedules(r, moment, s) ==
    IF s.err THEN [r EXCEPT !.err = TRUE]
    ELSE [r EXCEPT !.schedule_temperature = Periods(s.schedules, moment, 1, @)]

\* lines 928-982: one rule; returned = the return of line 953
SchemaRule(rules, location, moment, rule, location_id, r) ==
    IF rule.directives.none
    THEN [r EXCEPT !.returned = TRUE,
                   !.schemas = DictSet(@, rule.name,
                                       location_id = location /\ rule.active = "true")]
    ELSE WithSchedules(
             [r EXCEPT !.schemas =
                 DictSet(@, rule.name, location_id = location /\ rule.active = "true")],
             moment,
             Schedules(rules, location, rule.directives.elems, 1,
                       [err |-> FALSE, schedules |-> EmptyDict]))

RECURSIVE SchemaRules(_, _, _, _, _, _)
SchemaRules(rules, location, moment, rule_ids, i, r) ==
    IF r.err \/ r.returned \/ i > Len(rule_ids.keys) THEN r
    ELSE SchemaRules(rules, location, moment, rule_ids, i + 1,
             SchemaRule(rules, location, moment, RuleById(rules, rule_ids.keys[i]),
                        rule_ids.val[rule_ids.keys[i]], r))

\* lines 953, 984-986
SchemasReturn(r, chosen) ==
    [err |-> r.err,
     available |-> IF r.returned THEN <<>> ELSE chosen.available,
     selected |-> IF r.returned THEN None ELSE chosen.selected,
     schedule_temperature |-> r.schedule_temperature]

SchemasResult(r) == SchemasReturn(r, determine_selected(<<>>, None, r.schemas, 1))

SchemasOf(rules, location, moment, rule_ids) ==
    SchemasResult(
        SchemaRules(rules, location, moment, rule_ids, 1,
                    [err |-> FALSE, returned |-> FALSE, schemas |-> EmptyDict,
                     schedule_temperature |-> PyNone]))

\* lines 920-986: get_schemas(loc_id) of a non-legacy Smile at `moment`
get_schemas(rules, location, moment) ==
    SchemasOf(rules, location, moment,
        get_rule_ids_by_tag(rules, "zone_preset_based_on_time_and_presence_with_override",
                            location, 1, EmptyDict))

-----------------------------------------------------------------------------
(* get_schemas on the rules of an Adam, at a given moment: SpecSched.        *)

MaxDay == 1
DayNames == <<"mo", "tu", "we", "th", "fr", "sa", "su">>
Times == {180, 360, 600, 1320, 1380}

Interval(d1, t1, d2, t2) == [d1 |-> d1, t1 |-> t1, d2 |-> d2, t2 |-> t2]
NoTime == Interval("", 0, "", 0)

Intervals ==
    {Interval(DayNames[i + 1], t1, DayNames[j + 1], t2) :
        i \in 0..MaxDay, t1 \in Times, j \in 0..MaxDay, t2 \in Times}

Directive(time, key, preset, setpoint) ==
    [time |-> time, key |-> key, preset |-> preset, setpoint |-> setpoint]

Rule(id, name, tag, location, active, directives) ==
    [id |-> id, name |-> name, tag |-> tag, location |-> location,
     active |-> active, directives |-> directives]

ScheduleRule(id, name, location, active, directives) ==
    Rule(id, name, "zone_preset_based_on_time_and_presence_with_override",
         location, active, directives)

PresetsRule ==
    Rule("p1", "Thermostat presets", "zone_setpoint_and_state_based_on_preset", "L1",
         "true",
         Doc(<<Directive(NoTime, "heating_setpoint", "home", 21),
               Directive(NoTime, "heating_setpoint", "away", 15)>>))

Daytime == Interval("mo", 360, "mo", 1320)

ExtraDirectives == {<<>>, <<Directive(Daytime, "preset", "home", 0)>>}

OtherRules ==
    {<<>>,
     <<PresetsRule>>,
     <<PresetsRule,
       ScheduleRule("r2", "Weekend", "L2", "true",
                    Doc(<<Directive(Daytime, "setpoint", "", 17)>>))>>,
     <<PresetsRule, ScheduleRule("r3", "Empty", "L1", "false", NoneDoc)>>}

RuleDocs ==
    {<<ScheduleRule("r1", "Normal", "L1", active,
                    Doc(<<Directive(time, "setpoint", "", 20)>> \o extra))>> \o others :
        time \in Intervals, active \in {"true", "false"},
        extra \in ExtraDirectives, others \in OtherRules}

Moments == [weekday : 0..MaxDay, time : Times]

InitSched ==
    /\ InitClient(1, Doc(<<>>), Doc(<<>>))
    /\ InitScanLocals
    /\ InitOut
    /\ InitNoDevice
    /\ InitNoMeasure
    /\ d_rules \in RuleDocs
    /\ arg_loc_id = "L1"
    /\ period = [start |-> 0, end |-> 0]
    /\ clock \in Moments

SchemasReturned(r) ==
    /\ last_call' = "get_schemas"
    /\ result' = r
    /\ UNCHANGED <<client_vars, scan_vars, arg_vars>>

CallGetSchemas ==
    /\ last_call = "none"
    /\ SchemasReturned(get_schemas(d_rules, arg_loc_id, clock))

NextSched == CallGetSchemas

SpecSched == InitSched /\ [][NextSched]_vars

-----------------------------------------------------------------------------
(* in_between on every triple of times: SpecBetween.                         *)

MaxTime == 5

InitBetween ==
    /\ InitClient(1, Doc(<<>>), Doc(<<>>))
    /\ InitScanLocals
    /\ InitOut
    /\ InitNoDevice
    /\ InitNoMeasure
    /\ d_rules = <<>>
    /\ arg_loc_id = None
    /\ period \in [start : 0..MaxTime, end : 0..MaxTime]
    /\ clock \in [weekday : {0}, time : 0..MaxTime]

CallInBetween ==
    /\ last_call = "none"
    /\ last_call' = "in_between"
    /\ result' = [err |-> FALSE,
                  value |-> in_between(clock.time, period.start, period.end)]
    /\ UNCHANGED <<client_vars, scan_vars, arg_vars>>

NextBetween == CallInBetween

SpecBetween == InitBetween /\ [][NextBetween]_vars

-----------------------------------------------------------------------------
(* The finders get_device_data calls.  direct_objects is                    *)
(*   [locations, illuminance, outdoor_temperature]: the <logs> of each      *)
(* location as a sequence of measurements [log_type, type, tariff, text],   *)
(* the illuminance point log of each appliance and the outdoor_temperature  *)
(* point log of each location.  domain_objects is, apart from its rules,    *)
(*   [preset, icon, presets, schedule_state, modified_date]: the preset of  *)
(* each location, and for a legacy Anna the icon of the active rule (None:  *)
(* no active rule with an icon), the temperature of every icon and the      *)
(* schedule_state log of the thermostat; the modified_date of each rule, in *)
(* seconds.  A Python list or dict is [type, v] like the other values.      *)

PyList(v) == [type |-> "list", v |-> v]
PyDict(v) == [type |-> "dict", v |-> v]

Pop(data, key) == [k \in DOMAIN data \ {key} |-> data[k]]

\* float(text) of a text with at most two decimals, which hundredths hold
\* exactly.
FloatOf(measure) ==
    PyFloat(Signed(measure, Units(measure) * Pow10(2 - Len(measure.frac))))

\* find(): the first measurement of the logs that the locator selects, 0 for
\* None; tariff = "" stands for the locator without the tariff attribute.
FindLog(logs, log_type, measurement, tariff) ==
    IF \E i \in 1..Len(logs) :
          /\ logs[i].log_type = log_type /\ logs[i].type = measurement
          /\ tariff \in {"", logs[i].tariff}
    THEN CHOOSE i \in 1..Len(logs) :
          /\ logs[i].log_type = log_type /\ logs[i].type = measurement
          /\ tariff \in {"", logs[i].tariff}
          /\ \A j \in 1..(i - 1) :
                ~(/\ logs[j].log_type = log_type /\ logs[j].type = measurement
                  /\ tariff \in {"", logs[j].tariff})
    ELSE 0

log_list == <<"point_log", "cumulative_log", "interval_log">>
peak_list == <<"nl_peak", "nl_offpeak">>

\* lines 796-809: the measurement the iteration reads, 0 when it continues
Located(type, logs, log_type, measurement, peak_select) ==
    IF FindLog(logs, log_type, measurement, peak_select) # 0
    THEN FindLog(logs, log_type, measurement, peak_select)
    ELSE IF type = "power" /\ peak_select # "nl_offpeak"
    THEN FindLog(logs, log_type, measurement, "")
    ELSE 0

\* lines 811-814
PeakOf(peak_select) == IF peak_select = "nl_offpeak" THEN "off_peak" ELSE "peak"
LogFound(log_type) ==
    IF log_type = "point_log" THEN "point"
    ELSE IF log_type = "cumulative_log" THEN "cumulative" ELSE "interval"

\* lines 815-817
KeyString(measurement, peak_select, log_type) ==
    IF measurement = "gas_consumed"
    THEN measurement \o "_" \o LogFound(log_type)
    ELSE measurement \o "_" \o PeakOf(peak_select) \o "_" \o LogFound(log_type)

\* lines 822-828
NetElectricity(direct_data, measurement, log_type, val) ==
    IF measurement \notin {"electricity_consumed", "electricity_produced"}
    THEN direct_data
    ELSE Store(direct_data, "net_electricity_" \o LogFound(log_type),
               PyFloat((IF ("net_electricity_" \o LogFound(log_type)) \in DOMAIN direct_data
                        THEN direct_data["net_electricity_" \o LogFound(log_type)].v
                        ELSE 0)
                       + (IF measurement = "electricity_produced" THEN 0 - val.v
                          ELSE val.v)))

\* lines 811-830
DirectValue(direct_data, measurement, log_type, peak_select, val) ==
    Store(NetElectricity(direct_data, measurement, log_type, val),
          KeyString(measurement, peak_select, log_type), val)

\* lines 793-795: the measurement, log type and peak of iteration c of the
\* three nested loops
LoopMeasurement(c) == HOME_MEASUREMENTS[(c \div 6) + 1][1]
LoopLogType(c) == log_list[((c % 6) \div 2) + 1]
LoopPeak(c) == peak_list[(c % 2) + 1]

\* lines 808-830
DirectStep(logs, c, direct_data, located) ==
    IF located = 0 THEN direct_data
    ELSE DirectValue(direct_data, LoopMeasurement(c), LoopLogType(c), LoopPeak(c),
                     FloatOf(logs[located].text))

\* lines 793-830
RECURSIVE DirectLoop(_, _, _, _)
DirectLoop(type, logs, c, direct_data) ==
    IF c >= 24 THEN direct_data
    ELSE DirectLoop(type, logs, c + 1,
             DirectStep(logs, c, direct_data,
                 Located(type, logs, LoopLogType(c), LoopMeasurement(c), LoopPeak(c))))

\* lines 768-833; the empty dict stands for the None returned.  A legacy P1
\* searches domain_objects, which holds the same <location> elements.
get_direct_objects_from_location(self, direct, location) ==
    IF location \notin DOMAIN direct.locations THEN <<>>
    ELSE DirectLoop(self.type, direct.locations[location], 0, <<>>)

\* lines 1058-1073: the value rounded to one decimal, PyNone for None
ObjectValue(logs, id) ==
    IF id \in DOMAIN logs
    THEN PyFloat(Signed(logs[id], 10 * round(Units(logs[id]), Len(logs[id].frac), 1)))
    ELSE PyNone

get_object_value(direct, obj_type, id, measurement) ==
    IF obj_type = "appliance" /\ measurement = "illuminance"
    THEN ObjectValue(direct.illuminance, id)
    ELSE IF obj_type = "location" /\ measurement = "outdoor_temperature"
    THEN ObjectValue(direct.outdoor_temperature, id)
    ELSE PyNone

\* lines 835-852
get_preset(self, domain, location) ==
    IF self.legacy
    THEN PyStr(IF domain.icon = None THEN "none" ELSE domain.icon)
    ELSE IF location \in DOMAIN domain.preset THEN PyStr(domain.preset[location])
    ELSE PyNone

\* lines 1198-1208 and 854-884 as the value stored in the device record
PresetsValue(presets) ==
    [err |-> presets.err,
     value |-> IF presets.none THEN PyNone ELSE PyDict(presets.presets)]

PresetsFor(self, rules, domain, location) ==
    IF self.legacy
    THEN [err |-> FALSE, value |-> PyDict(domain.presets)]
    ELSE PresetsValue(get_presets(rules, location))

\* The rule names of the model that contain "preset" (line 900).
PresetNames == {"Thermostat presets"}

\* lines 896-901: the name of the last rule that is no preset rule
RECURSIVE LegacySchemaName(_, _, _)
LegacySchemaName(rules, i, name) ==
    IF i > Len(rules) THEN name
    ELSE LegacySchemaName(rules, i + 1,
             IF rules[i].name # "" /\ rules[i].name \notin PresetNames
             THEN rules[i].name ELSE name)

\* lines 913-918
LegacySchemas(name, active) ==
    [err |-> FALSE,
     available |-> IF name = None THEN <<>> ELSE <<name>>,
     selected |-> IF name # None /\ active THEN name ELSE None,
     schedule_temperature |-> PyNone]

\* lines 895-918
get_schemas_legacy(rules, domain) ==
    LegacySchemas(LegacySchemaName(rules, 1, None), domain.schedule_state = "on")

SchemasFor(self, rules, domain, location, moment) ==
    IF self.legacy THEN get_schemas_legacy(rules, domain)
    ELSE get_schemas(rules, location, moment)

\* lines 1016-1025: schemas[name] = modified_date, for the rules of the location
RECURSIVE ModifiedDates(_, _, _, _, _, _)
ModifiedDates(rules, domain, location, rule_ids, i, r) ==
    IF r.err \/ i > Len(rule_ids.keys) THEN r
    ELSE ModifiedDates(rules, domain, location, rule_ids, i + 1,
             IF rule_ids.val[rule_ids.keys[i]] # location THEN r
             ELSE IF rule_ids.keys[i] \notin DOMAIN domain.modified_date
             THEN [r EXCEPT !.err = TRUE]
             ELSE [r EXCEPT !.schemas =
                      DictSet(@, RuleById(rules, rule_ids.keys[i]).name,
                              domain.modified_date[rule_ids.keys[i]])])

\* line 1028: sorted(..., key)[-1][0]; sorted is stable, so of the names with
\* the latest date the one inserted last
LastOf(schemas) ==
    schemas.keys[CHOOSE i \in 1..Len(schemas.keys) :
        /\ \A j \in 1..Len(schemas.keys) :
              schemas.val[schemas.keys[j]] <= schemas.val[schemas.keys[i]]
        /\ \A j \in (i + 1)..Len(schemas.keys) :
              schemas.val[schemas.keys[j]] < schemas.val[schemas.keys[i]]]

LastModified(r) ==
    [err |-> r.err,
     value |-> IF r.err \/ r.schemas.keys = <<>> THEN PyNone
               ELSE PyStr(LastOf(r.schemas))]

\* lines 1005-1030
get_last_active_schema(rules, domain, location) ==
    LastModified(
        ModifiedDates(rules, domain, location,
            get_rule_ids_by_tag(rules, "zone_preset_based_on_time_and_presence_with_override",
                                location, 1, EmptyDict),
            1, [err |-> FALSE, schemas |-> EmptyDict]))

\* lines 665-668: "".join(map(str, avail_schemas))
RECURSIVE Join(_)
Join(names) == IF names = <<>> THEN "" ELSE names[1] \o Join(Tail(names))

LastUsed(self, rules, domain, location, schemas) ==
    IF self.legacy THEN [err |-> FALSE, value |-> PyStr(Join(schemas.available))]
    ELSE get_last_active_schema(rules, domain, location)

-----------------------------------------------------------------------------
(* get_device_data.  `docs` is [logs, direct, domain, rules]; r is          *)
(* [err, data], the record under construction.                               *)

Failed(r) == [r EXCEPT !.err = TRUE]

\* findall('.//appliance[@id=...]'): no element, no data
ApplianceLogs(logs, id) == IF id \in DOMAIN logs THEN logs[id] ELSE NoElement

\* Python truth of a value (line 694)
Truthy(value) ==
    /\ value.type # "NoneType"
    /\ value.type \in {"int", "float"} => value.v # 0
    /\ value.type = "bool" => value.v
    /\ value.type = "str" => value.v # ""

\* lines 645-648
BoilerState(r) ==
    IF r.err \/ "boiler_state" \notin DOMAIN r.data THEN r
    ELSE IF "intended_boiler_state" \notin DOMAIN r.data THEN Failed(r)
    ELSE [r EXCEPT !.data =
             Pop(Pop(Store(@, "heating_state", @["intended_boiler_state"]),
                     "boiler_state"),
                 "intended_boiler_state")]

\* lines 651-652
SetpointFix(r) ==
    IF r.err \/ "setpoint" \notin DOMAIN r.data THEN r
    ELSE [r EXCEPT !.data = Pop(@, "heating_state")]

thermostat_classes == {"thermostat", "zone_thermostat", "thermostatic_radiator_valve"}

\* lines 662-671
WithLastUsed(self, r, active_preset, presets, schemas, last_used) ==
    IF last_used.err THEN Failed(r)
    ELSE [r EXCEPT !.data =
             ("active_preset" :> active_preset)
             @@ ("presets" :> presets.value)
             @@ (IF self.legacy THEN <<>>
                 ELSE "schedule_temperature" :> schemas.schedule_temperature)
             @@ ("available_schedules" :> PyList(schemas.available))
             @@ ("selected_schedule" :>
                    IF schemas.selected = None THEN PyNone ELSE PyStr(schemas.selected))
             @@ ("last_used" :> last_used.value)
             @@ @]

\* lines 655-671
WithSchemas(self, docs, location, r, presets, schemas) ==
    IF presets.err \/ schemas.err THEN Failed(r)
    ELSE WithLastUsed(self, r, get_preset(self, docs.domain, location), presets, schemas,
                      LastUsed(self, docs.rules, docs.domain, location, schemas))

\* lines 654-671
ThermostatData(self, docs, moment, details, r) ==
    IF r.err \/ details.class \notin thermostat_classes THEN r
    ELSE WithSchemas(self, docs, details.location, r,
                     PresetsFor(self, docs.rules, docs.domain, details.location),
                     SchemasFor(self, docs.rules, docs.domain, details.location, moment))

\* lines 674-677
Illuminance(docs, dev_id, details, r) ==
    IF r.err \/ details.class # "thermostat" THEN r
    ELSE [r EXCEPT !.data =
             Store(@, "illuminance",
                   get_object_value(docs.direct, "appliance", dev_id, "illuminance"))]

\* lines 694-695
OutdoorTemperature(r, outdoor_temperature) ==
    IF Truthy(outdoor_temperature)
    THEN [r EXCEPT !.data = Store(@, "outdoor_temperature", outdoor_temperature)]
    ELSE r

\* lines 687-695
HeaterData(self, docs, r, heater_data) ==
    IF heater_data.err THEN Failed(r)
    ELSE OutdoorTemperature(r,
             IF "outdoor_temperature" \in DOMAIN heater_data.data
             THEN heater_data.data["outdoor_temperature"]
             ELSE get_object_value(docs.direct, "location", self.home_location,
                                   "outdoor_temperature"))

\* lines 680-695
GatewayData(self, docs, dev_id, details, r) ==
    IF r.err \/ ~(details.class = "gateway" \/ dev_id = self.gateway_id) THEN r
    ELSE HeaterData(self, docs,
             [r EXCEPT !.data =
                 get_direct_objects_from_location(self, docs.direct, details.location) @@ @],
             get_appliance_data(self, ApplianceLogs(docs.logs, self.heater_id)))

\* lines 654-697, details being devices.get(dev_id)
DeviceDetails(self, docs, dev_id, moment, details, r) ==
    GatewayData(self, docs, dev_id, details,
        Illuminance(docs, dev_id, details,
            ThermostatData(self, docs, moment, details, r)))

\* lines 634-697; subscripting the None of an unknown dev_id raises
DeviceData(devices, docs, dev_id, moment) ==
    IF devices.err THEN [err |-> TRUE, data |-> <<>>, self |-> devices.self]
    ELSE IF ~HasKey(devices.devices, dev_id)
    THEN [err |-> TRUE, data |-> <<>>, self |-> devices.self]
    ELSE [self |-> devices.self]
         @@ DeviceDetails(devices.self, docs, dev_id, moment, devices.devices.val[dev_id],
                SetpointFix(BoilerState(
                    get_appliance_data(devices.self, ApplianceLogs(docs.logs, dev_id)))))

\* lines 631-697
get_device_data(self, docs, dev_id, moment) ==
    DeviceData(get_all_devices(self), docs, dev_id, moment)

-----------------------------------------------------------------------------
(* get_device_data on whole installations: SpecDevice.                      *)

\* The logs of a heater: a legacy Anna reports boiler_state and
\* intended_boiler_state, an Adam intended_central_heating_state.
OutdoorTexts == {Num(FALSE, 0, <<0>>), Num(FALSE, 7, <<4>>)}

HeaterElements ==
    {[point |-> Log(logs[1], "boiler_state", Word("off"))
                @@ Log(logs[2], "intended_boiler_state", Word("on"))
                @@ Log(logs[3], "intended_central_heating_state", Word("on"))
                @@ Log(logs[4], "outdoor_temperature", outdoor),
      interval |-> <<>>, cumulative |-> <<>>] :
        logs \in BOOLEAN \X BOOLEAN \X BOOLEAN \X BOOLEAN, outdoor \in OutdoorTexts}

ThermostatElement ==
    [point |-> ("thermostat" :> Num(FALSE, 20, <<5>>))
               @@ ("temperature" :> Num(FALSE, 19, <<3>>)),
     interval |-> <<>>, cumulative |-> <<>>]

DirectLog(log_type, type, tariff, text) ==
    [log_type |-> log_type, type |-> type, tariff |-> tariff, text |-> text]

MeterLogs ==
    << DirectLog("point_log", "electricity_consumed", "nl_peak", Num(FALSE, 12, <<>>)),
       DirectLog("cumulative_log", "electricity_consumed", "nl_offpeak", Num(FALSE, 9, <<5>>)),
       DirectLog("point_log", "electricity_produced", "nl_peak", Num(FALSE, 3, <<>>)),
       DirectLog("cumulative_log", "gas_consumed", "", Num(FALSE, 4, <<2, 5>>)) >>

\* direct_objects of a thermostat installation whose home is `home`
ThermostatDirect(home, outdoor) ==
    [locations |-> <<>>,
     illuminance |-> ("t1" :> Num(FALSE, 45, <<2, 5>>)),
     outdoor_temperature |-> Log(outdoor, home, Num(FALSE, 7, <<4, 4>>))]

PowerDirect(home) ==
    [locations |-> (home :> MeterLogs), illuminance |-> <<>>, outdoor_temperature |-> <<>>]

DeviceRules ==
    {<<>>,
     <<ScheduleRule("r1", "Normal", "L1", "true",
                    Doc(<<Directive(Daytime, "setpoint", "", 20)>>)),
       PresetsRule>>,
     <<ScheduleRule("r1", "Normal", "L1", "false",
                    Doc(<<Directive(Daytime, "setpoint", "", 20)>>)),
       ScheduleRule("r2", "Weekend", "L1", "false",
                    Doc(<<Directive(Daytime, "setpoint", "", 17)>>)),
       PresetsRule>>}

LegacyDomain(state) ==
    [preset |-> <<>>, icon |-> "home",
     presets |-> ("home" :> PyFloat(2000)) @@ ("away" :> PyFloat(1500)),
     schedule_state |-> state, modified_date |-> <<>>]

ZoneDomain ==
    [preset |-> ("L1" :> "home"), icon |-> None, presets |-> <<>>,
     schedule_state |-> None,
     modified_date |-> ("r1" :> 100) @@ ("r2" :> 200) @@ ("p1" :> 50)]

Installation(dialect, appls, locs, logs, direct, domain, rules) ==
    [dialect |-> dialect, appliances |-> appls, locations |-> locs, logs |-> logs,
     direct |-> direct, domain |-> domain, rules |-> rules]

\* A legacy Anna: the thermostat and the heater, no locations.
LegacyAnnas ==
    {Installation(2,
        Doc(<<Appliance("t1", None, FALSE, TRUE, NoLogs)>> \o heaters),
        Doc(<<>>),
        ("t1" :> ThermostatElement) @@ ("h1" :> heater),
        ThermostatDirect(LegacyHome, outdoor), LegacyDomain(state), rules) :
        heaters \in {<<>>, <<Appliance("h1", None, FALSE, FALSE, NoLogs)>>},
        heater \in HeaterElements, outdoor \in BOOLEAN, state \in {"on", "off"},
        rules \in DeviceRules}

ZoneAppliances ==
    {<<Appliance("g1", None, FALSE, FALSE, NoLogs),
       Appliance("h1", None, FALSE, FALSE, NoLogs),
       Appliance("t1", "L1", FALSE, TRUE, NoLogs)>>,
     <<Appliance("g1", None, FALSE, FALSE, NoLogs),
       Appliance("z1", "L1", FALSE, TRUE, NoLogs),
       Appliance("v1", "L1", FALSE, FALSE, NoLogs)>>}

\* An Adam or a non-legacy Anna.
Adams ==
    {Installation(1, Doc(appls), Doc(Rooms(appls)),
        ("t1" :> ThermostatElement) @@ ("z1" :> ThermostatElement) @@ ("h1" :> heater),
        ThermostatDirect("H", outdoor), ZoneDomain, rules) :
        appls \in ZoneAppliances, heater \in HeaterElements, outdoor \in BOOLEAN,
        rules \in DeviceRules}

\* A P1, non-legacy and legacy.
Meters ==
    {Installation(3, Doc(<<Appliance("g1", None, FALSE, FALSE, NoLogs)>>),
        Doc(<<Location("H", "Home", {}, 0, ("electricity_consumed" :> TRUE))>>),
        <<>>, PowerDirect("H"), NoDomain, <<>>),
     Installation(4, NoneDoc, Doc(<<Location("P", "abc", {}, 2, NoLogs)>>),
        <<>>, PowerDirect("P"), NoDomain, <<>>)}

Installations == LegacyAnnas \cup Adams \cup Meters

DeviceMoments == {[weekday |-> 0, time |-> 600], [weekday |-> 1, time |-> 180]}

DeviceIds == {"t1", "z1", "v1", "g1", "h1", "H", "P"}

Docs == [logs |-> d_logs, direct |-> d_direct, domain |-> d_domain, rules |-> d_rules]

InitDevice ==
    /\ \E i \in Installations :
         /\ InitClient(i.dialect, i.appliances, i.locations)
         /\ d_logs = i.logs
         /\ d_direct = i.direct
         /\ d_domain = i.domain
         /\ d_rules = i.rules
    /\ InitScanLocals
    /\ InitOut
    /\ InitNoMeasure
    /\ InitNoNet
    /\ arg_dev_id = None
    /\ arg_loc_id = None
    /\ period = [start |-> 0, end |-> 0]
    /\ clock \in DeviceMoments

DeviceReturned(dev_id, r) ==
    /\ SetSelf(r.self)
    /\ last_call' = "get_device_data"
    /\ result' = [err |-> r.err, data |-> r.data]
    /\ arg_dev_id' = dev_id
    /\ UNCHANGED <<scan_vars, measure_text, element, d_rules, arg_loc_id, period, clock,
                   d_logs, d_direct, d_domain, net_vars>>

\* The caller asks for the devices get_all_devices lists.
CallGetDeviceData ==
    \E dev_id \in DeviceIds :
        /\ HasKey(get_all_devices(Self).devices, dev_id)
        /\ DeviceReturned(dev_id, get_device_data(Self, Docs, dev_id, clock))

NextDevice ==
    \/ CallGetAllDevices
    \/ CallGetDeviceData

SpecDevice == InitDevice /\ [][NextDevice]_vars

-----------------------------------------------------------------------------
(* connect, request and full_update_device as one coroutine that is         *)
(* suspended at each await: SpecConnect.  The gateway and the network       *)
(* choose the outcome of every GET.                                         *)

APPLIANCES == "/core/appliances"
DIRECT_OBJECTS == "/core/direct_objects"
DOMAIN_OBJECTS == "/core/domain_objects"
LOCATIONS == "/core/locations"
RULES == "/core/rules"

\* SMILES by its keys; legacy = None: the entry has no "legacy" key.
SMILES_by_key ==
    ("smile_open_therm_v30" :> [type |-> "thermostat", friendly_name |-> "Adam", legacy |-> None])
    @@ ("smile_open_therm_v23" :> [type |-> "thermostat", friendly_name |-> "Adam", legacy |-> None])
    @@ ("smile_thermo_v40" :> [type |-> "thermostat", friendly_name |-> "Anna", legacy |-> None])
    @@ ("smile_thermo_v31" :> [type |-> "thermostat", friendly_name |-> "Anna", legacy |-> None])
    @@ ("smile_thermo_v18" :> [type |-> "thermostat", friendly_name |-> "Anna", legacy |-> "True"])
    @@ ("smile_v40" :> [type |-> "power", friendly_name |-> "P1", legacy |-> None])
    @@ ("smile_v33" :> [type |-> "power", friendly_name |-> "P1", legacy |-> None])
    @@ ("smile_v25" :> [type |-> "power", friendly_name |-> "P1", legacy |-> "True"])

\* What connect has made of the response: the error it raises or the model
\* and version it goes on with.
Identified(raised, legacy, smile_model, smile_version) ==
    [raised |-> raised, legacy |-> legacy, model |-> smile_model,
     version |-> smile_version]

\* lines 161-197
Identify(body, legacy) ==
    IF ~body.vendor /\ ~body.dsmr
    THEN Identified("ConnectionFailedError", legacy, None, Version("none", "", ""))
    ELSE IF ~body.gateway
    THEN IF body.anna THEN Identified(None, TRUE, "smile_thermo", SemVer("1", "8"))
         ELSE IF body.dsmr THEN Identified(None, TRUE, "smile", SemVer("2", "5"))
         ELSE Identified("ConnectionFailedError", TRUE, None, Version("none", "", ""))
    ELSE IF legacy THEN Identified("UnboundLocalError", legacy, None, Version("none", "", ""))
    ELSE IF body.model = Absent \/ body.version.kind = "absent"
    THEN Identified("AttributeError", legacy, None, Version("none", "", ""))
    ELSE Identified(None, legacy, body.model, body.version)

\* line 200
target_smile(smile_model, ver) == smile_model \o "_v" \o ver.major \o ver.minor

Resolved(raised, legacy, type, friendly_name) ==
    [raised |-> raised, legacy |-> legacy, type |-> type, name |-> friendly_name]

\* The check of the target against SMILES is left out.
Resolve_any_target(i) ==
    IF i.raised # None THEN Resolved(i.raised, i.legacy, None, None)
    ELSE IF i.model = None \/ i.version.kind = "none"
    THEN Resolved("UnsupportedDeviceError", i.legacy, None, None)
    ELSE IF i.version.kind # "semver" THEN Resolved("ValueError", i.legacy, None, None)
    ELSE Resolved(None, i.legacy, "thermostat", "Adam")

\* lines 195-222
Resolve(i) ==
    IF i.raised # None THEN Resolved(i.raised, i.legacy, None, None)
    ELSE IF i.model = None \/ i.version.kind = "none"
    THEN Resolved("UnsupportedDeviceError", i.legacy, None, None)
    ELSE IF i.version.kind # "semver" THEN Resolved("ValueError", i.legacy, None, None)
    ELSE IF target_smile(i.model, i.version) \notin DOMAIN SMILES_by_key
    THEN Resolved("UnsupportedDeviceError", i.legacy, None, None)
    ELSE Resolved(None,
                  IF SMILES_by_key[target_smile(i.model, i.version)].legacy = None
                  THEN i.legacy ELSE TRUE,
                  SMILES_by_key[target_smile(i.model, i.version)].type,
                  SMILES_by_key[target_smile(i.model, i.version)].friendly_name)

\* Retrying until retry is below zero.
Exhausted_below_zero(retry) == retry < 0

\* lines 154 and 258: if retry < 1
Exhausted(retry) == retry < 1

\* The default values of the retry arguments (lines 144 and 239).
ConnectRetry == 2
RequestRetry == 3

\* lines 238-240: data is None or the body a set_* composed; the headers are
\* never passed and always the default of line 247
Request(command, retry, method, data) ==
    [command |-> command, retry |-> retry, method |-> method, data |-> data]

\* lines 325-327, 332-335, 339 and 344: the document is missing and that is fatal
Fatal(command, fetched, legacy, type) ==
    /\ command \notin fetched
    /\ \/ command \in {DOMAIN_OBJECTS, LOCATIONS}
       \/ type = "power" /\ ~legacy

\* The cycle asks for the locations first.
Cycle_locations_first == <<LOCATIONS, APPLIANCES, DIRECT_OBJECTS, DOMAIN_OBJECTS>>

\* lines 324, 332, 339 and 344: the calls of full_update_device, in order
Cycle == <<APPLIANCES, DIRECT_OBJECTS, DOMAIN_OBJECTS, LOCATIONS>>

\* lines 292-296 and 301-305: update_appliances and update_direct_objects of
\* a legacy P1 return without a request
NoRequestFor(command, legacy, type) ==
    command \in {APPLIANCES, DIRECT_OBJECTS} /\ legacy /\ type = "power"

\* The coroutine ends: it raises, or it returns True, False or None.
RaiseIn(operation, error) ==
    /\ n_pc' = "done"
    /\ last_call' = operation
    /\ result' = [err |-> TRUE, raised |-> error, value |-> None]

ReturnIn(operation, value) ==
    /\ n_pc' = "done"
    /\ last_call' = operation
    /\ result' = [err |-> FALSE, raised |-> None, value |-> value]

Raise(error) == RaiseIn(n_op, error)

Return(value) == ReturnIn(n_op, value)

Running ==
    /\ last_call' = "none"
    /\ result' = NoResult

\* The responses to connect's GET: whether the text holds the vendor name,
\* "<dsmrmain id", a <gateway> and a thermostat appliance, and the texts of
\* the gateway's <vendor_model> and <firmware_version>.
Models == {"smile_open_therm", "smile_thermo", "smile", "stretch", None, Absent}

Versions ==
    {SemVer("3", "0"), SemVer("2", "3"), SemVer("4", "0"), SemVer("3", "1"),
     SemVer("1", "8"), SemVer("2", "5"), SemVer("3", "3"),
     Version("malformed", "", ""), Version("none", "", ""), Version("absent", "", "")}

Bodies ==
    [vendor : BOOLEAN, dsmr : BOOLEAN, gateway : BOOLEAN, anna : BOOLEAN,
     model : Models, version : Versions]

\* A client fresh from __init__ (lines 128-142).
InitConnect ==
    /\ smile_legacy = FALSE
    /\ smile_type = None
    /\ smile_name = None
    /\ d_appliances = NoneDoc
    /\ d_locations = NoneDoc
    /\ gateway_id = None
    /\ heater_id = None
    /\ home_location = None
    /\ thermo_master_id = None
    /\ InitScanLocals
    /\ InitOut
    /\ InitNoMeasure
    /\ InitNoRules
    /\ InitNoDevice

UNCHANGED_documents ==
    UNCHANGED <<d_appliances, d_locations, gateway_id, heater_id, home_location,
                thermo_master_id, scan_vars, measure_text, element, d_rules, arg_loc_id,
                period, clock, d_logs, d_direct, d_domain, arg_dev_id>>

\* line 144: await smile.connect()
CallConnect ==
    /\ n_pc = "idle"
    /\ n_op' = "connect"
    /\ n_pc' = "connect"
    /\ n_retry' = ConnectRetry
    /\ n_conn_attempts' = 0
    /\ Running
    /\ UNCHANGED <<smile_legacy, smile_type, smile_name, n_req, n_todo, n_fetched,
                   n_requested, n_req_attempts, n_accepted, n_body, n_cycle, n_stored>>
    /\ UNCHANGED_documents

\* lines 148-157: the GET times out or fails with a ClientError
ConnectFailure ==
    /\ n_pc = "connect"
    /\ n_conn_attempts' = n_conn_attempts + 1
    /\ IF Exhausted(n_retry)
       THEN Raise("ConnectionFailedError") /\ UNCHANGED n_retry
       ELSE n_retry' = n_retry - 1 /\ UNCHANGED <<n_pc, out_vars>>
    /\ UNCHANGED <<smile_legacy, smile_type, smile_name, n_op, n_req, n_todo, n_fetched,
                   n_requested, n_req_attempts, n_accepted, n_body, n_cycle, n_stored>>
    /\ UNCHANGED_documents

\* lines 151-152: status 401
ConnectUnauthorized ==
    /\ n_pc = "connect"
    /\ n_conn_attempts' = n_conn_attempts + 1
    /\ Raise("InvalidAuthentication")
    /\ UNCHANGED <<smile_legacy, smile_type, smile_name, n_op, n_retry, n_req, n_todo,
                   n_fetched, n_requested, n_req_attempts, n_accepted, n_body, n_cycle,
                   n_stored>>
    /\ UNCHANGED_documents

\* lines 218-226: r is the outcome of lines 159-216
Connected(r) ==
    /\ smile_legacy' = r.legacy
    /\ IF r.raised # None
       THEN /\ Raise(r.raised)
            /\ UNCHANGED <<smile_type, smile_name, n_todo>>
       ELSE /\ smile_type' = r.type
            /\ smile_name' = r.name
            /\ n_pc' = "update"
            /\ n_todo' = Cycle
            /\ UNCHANGED out_vars

\* lines 159-226: the gateway answers
ConnectResponse ==
    /\ n_pc = "connect"
    /\ n_conn_attempts' = n_conn_attempts + 1
    /\ \E body \in Bodies :
         /\ n_body' = body
         /\ Connected(Resolve(Identify(body, smile_legacy)))
    /\ n_requested' = <<>>
    /\ n_cycle' = IF n_pc' = "update" THEN n_cycle + 1 ELSE n_cycle
    /\ UNCHANGED <<n_op, n_retry, n_req, n_fetched, n_req_attempts, n_accepted,
                   n_stored>>
    /\ UNCHANGED_documents

MaxCycles == 3

\* line 322: a poll of the connected client
CallFullUpdate ==
    /\ n_pc = "done"
    /\ n_op \in {"connect", "full_update_device"}
    /\ n_op = "connect" => ~result.err
    /\ n_cycle < MaxCycles
    /\ n_cycle' = n_cycle + 1
    /\ n_op' = "full_update_device"
    /\ n_pc' = "update"
    /\ n_todo' = Cycle
    /\ n_requested' = <<>>
    /\ n_body' = NoBody
    /\ Running
    /\ UNCHANGED <<smile_legacy, smile_type, smile_name, n_retry, n_req, n_fetched,
                   n_conn_attempts, n_req_attempts, n_accepted, n_stored>>
    /\ UNCHANGED_documents

\* lines 324-348 and 226-232: update_* has returned and left `fetched`
Updated(fetched) ==
    IF Fatal(n_todo[1], fetched, smile_legacy, smile_type)
    THEN /\ Raise(IF n_op = "connect" THEN "DeviceSetupError" ELSE "XMLDataMissingError")
         /\ UNCHANGED n_todo
    ELSE IF Len(n_todo) = 1
    THEN /\ Return(IF n_op = "connect" THEN "True" ELSE "None")
         /\ n_todo' = <<>>
    ELSE /\ n_pc' = "update"
         /\ n_todo' = Tail(n_todo)
         /\ UNCHANGED out_vars

\* lines 294-295 and 303-304
UpdateWithoutRequest ==
    /\ n_pc = "update"
    /\ NoRequestFor(n_todo[1], smile_legacy, smile_type)
    /\ Updated(n_fetched)
    /\ UNCHANGED <<smile_legacy, smile_type, smile_name, n_op, n_retry, n_req, n_fetched,
                   n_requested, n_conn_attempts, n_req_attempts, n_accepted, n_body,
                   n_cycle, n_stored>>
    /\ UNCHANGED_documents

\* lines 297, 306, 312 and 318: request(COMMAND)
UpdateRequest ==
    /\ n_pc = "update"
    /\ ~NoRequestFor(n_todo[1], smile_legacy, smile_type)
    /\ n_req' = Request(n_todo[1], RequestRetry, "get", None)
    /\ n_requested' = Append(n_requested, n_todo[1])
    /\ n_req_attempts' = 0
    /\ n_pc' = "request"
    /\ UNCHANGED <<smile_legacy, smile_type, smile_name, n_op, n_retry, n_todo, n_fetched,
                   n_conn_attempts, n_accepted, n_body, n_cycle, n_stored, out_vars>>
    /\ UNCHANGED_documents

\* lines 298-299, 307-308, 313-314 and 319-320: new_data is not None and
\* replaces the document, which is now the one of the running cycle
Replaced(command) == (command :> n_cycle) @@ n_stored

\* What the gateway may have done with the request that was sent: a PUT
\* answered with status 202 or a document is accepted, one answered with an
\* error is not, and a PUT without a usable answer may be either.
AcceptedAfter(method, outcome) ==
    IF method # "put" \/ outcome = "error" THEN {n_accepted}
    ELSE IF outcome \in {"202", "xml"} THEN {n_accepted + 1}
    ELSE {n_accepted, n_accepted + 1}

UNCHANGED_client ==
    UNCHANGED <<smile_legacy, smile_type, smile_name, n_op, n_retry, n_conn_attempts,
                n_body, n_cycle>>

\* lines 256-261: the request times out; the retry is request(command, retry - 1)
RequestTimeout ==
    /\ n_pc = "request"
    /\ n_req_attempts' = n_req_attempts + 1
    /\ n_accepted' \in AcceptedAfter(n_req.method, "timeout")
    /\ IF Exhausted(n_req.retry)
       THEN Raise("DeviceTimeoutError") /\ UNCHANGED n_req
       ELSE /\ n_req' = Request(n_req.command, n_req.retry - 1, "get", None)
            /\ UNCHANGED <<n_pc, out_vars>>
    /\ UNCHANGED <<n_todo, n_fetched, n_requested, n_stored>>
    /\ UNCHANGED_client
    /\ UNCHANGED_documents

\* lines 263-267 (ClientError), 269-273 (the response cannot be read),
\* 279-280 (empty or "error") and 282-287 (no XML)
RequestError ==
    /\ n_pc = "request"
    /\ n_req_attempts' = n_req_attempts + 1
    /\ \E outcome \in {"client_error", "read_timeout", "error", "invalid"} :
         /\ n_accepted' \in AcceptedAfter(n_req.method, outcome)
         /\ Raise(CASE outcome = "client_error" -> "ErrorSendingCommandError"
                    [] outcome = "read_timeout" -> "DeviceTimeoutError"
                    [] outcome = "error" -> "ResponseError"
                    [] outcome = "invalid" -> "InvalidXMLError")
    /\ UNCHANGED <<n_req, n_todo, n_fetched, n_requested, n_stored>>
    /\ UNCHANGED_client
    /\ UNCHANGED_documents

\* lines 1103-1106 and the last lines of the other set_*: the PUT has returned
Controlled ==
    IF Len(n_todo) > 1
    THEN /\ n_todo' = Tail(n_todo)
         /\ n_req' = Request(n_todo[2], RequestRetry, "put", "data")
         /\ n_requested' = Append(n_requested, n_todo[2])
         /\ n_req_attempts' = 0
         /\ UNCHANGED <<n_pc, out_vars>>
    ELSE /\ Return("True")
         /\ n_todo' = <<>>
         /\ n_req_attempts' = n_req_attempts + 1
         /\ UNCHANGED <<n_req, n_requested>>

\* lines 275-289: request returns None (status 202) or the document, and the
\* caller goes on
RequestResponse ==
    /\ n_pc = "request"
    /\ \E outcome \in {"202", "xml"} :
         /\ n_accepted' \in AcceptedAfter(n_req.method, outcome)
         /\ IF n_op \in {"connect", "full_update_device"}
            THEN /\ n_fetched' = IF outcome = "xml" THEN n_fetched \cup {n_req.command}
                                 ELSE n_fetched
                 /\ n_stored' = IF outcome = "xml" THEN Replaced(n_req.command)
                                 ELSE n_stored
                 /\ Updated(n_fetched')
                 /\ n_req_attempts' = n_req_attempts + 1
                 /\ UNCHANGED <<n_req, n_requested>>
            ELSE /\ Controlled
                 /\ UNCHANGED <<n_fetched, n_stored>>
    /\ UNCHANGED_client
    /\ UNCHANGED_documents

NextConnect ==
    \/ CallConnect
    \/ ConnectFailure
    \/ ConnectUnauthorized
    \/ ConnectResponse
    \/ CallFullUpdate
    \/ UpdateWithoutRequest
    \/ UpdateRequest
    \/ RequestTimeout
    \/ RequestError
    \/ RequestResponse

SpecConnect == InitConnect /\ [][NextConnect]_vars

-----------------------------------------------------------------------------
(* The control operations set_schedule_state, set_preset, set_temperature   *)
(* and set_relay_state on a connected thermostat installation: SpecControl. *)

\* What a set_* has worked out before its first PUT: the error it raises, or
\* the uris it will PUT to (none: it returns False).
Puts(raised, uris) == [raised |-> raised, uris |-> uris]

\* lines 1093 and 1249: "{};id={}".format(RULES, schema_rule_id)
RuleUri(schema_rule_id) == RULES \o ";id=" \o schema_rule_id

\* lines 1088-1103: one PUT for every rule id
RECURSIVE RuleUris(_, _)
RuleUris(schema_rule_ids, i) ==
    IF i > Len(schema_rule_ids.keys) THEN <<>>
    ELSE <<RuleUri(schema_rule_ids.keys[i])>> \o RuleUris(schema_rule_ids, i + 1)

\* lines 1238-1242: the id of the last rule with the name
RECURSIVE LegacyRuleId(_, _, _, _)
LegacyRuleId(rules, name, i, schema_rule_id) ==
    IF i > Len(rules) THEN schema_rule_id
    ELSE LegacyRuleId(rules, name, i + 1,
             IF rules[i].name = name THEN rules[i].id ELSE schema_rule_id)

\* lines 1236-1259
set_schedule_state_legacy(rules, name) ==
    IF LegacyRuleId(rules, name, 1, None) = None THEN Puts(None, <<>>)
    ELSE Puts(None, <<RuleUri(LegacyRuleId(rules, name, 1, None))>>)

\* lines 1075-1106, up to the first PUT
set_schedule_state(self, rules, location, name) ==
    IF self.legacy THEN set_schedule_state_legacy(rules, name)
    ELSE Puts(None, RuleUris(get_rule_ids_by_name(rules, name, location, 1, EmptyDict), 1))

\* find("location[@id='...']")
HasLocation(self, location) ==
    \E i \in 1..Len(self.locations.elems) : self.locations.elems[i].id = location

\* lines 1116-1119: preset not in self.get_presets(loc_id)
PresetPut(presets, location, preset) ==
    IF presets.err THEN Puts("KeyError", <<>>)
    ELSE IF presets.none THEN Puts("TypeError", <<>>)
    ELSE IF preset \notin DOMAIN presets.presets THEN Puts(None, <<>>)
    ELSE Puts(None, <<LOCATIONS \o ";id=" \o location>>)

\* lines 1108-1141 and 1210-1231, up to the PUT
set_preset(self, rules, domain, location, preset) ==
    IF self.legacy
    THEN IF preset \in DOMAIN domain.presets THEN Puts(None, <<RULES>>)
         ELSE Puts(None, <<>>)
    ELSE IF ~HasLocation(self, location) THEN Puts("AttributeError", <<>>)
    ELSE PresetPut(get_presets(rules, location), location, preset)

\* lines 1233-1237: the first appliance of type thermostat
LegacyThermostat(self) ==
    IF \E i \in 1..Len(self.appliances.elems) : self.appliances.elems[i].type = "thermostat"
    THEN self.appliances.elems[
             CHOOSE i \in 1..Len(self.appliances.elems) :
                /\ self.appliances.elems[i].type = "thermostat"
                /\ \A j \in 1..(i - 1) : self.appliances.elems[j].type # "thermostat"].id
    ELSE None

\* lines 1143-1174; functionality is the id of the location's
\* thermostat_functionality, None when the document holds none
set_temperature(self, location, functionality) ==
    IF self.legacy
    THEN IF LegacyThermostat(self) = None THEN Puts("AttributeError", <<>>)
         ELSE Puts(None, <<APPLIANCES \o ";id=" \o LegacyThermostat(self) \o "/thermostat">>)
    ELSE IF functionality = None THEN Puts("AttributeError", <<>>)
    ELSE Puts(None, <<LOCATIONS \o ";id=" \o location \o "/thermostat;id=" \o functionality>>)

\* lines 1176-1189; functionality is the id of the appliance's
\* relay_functionality
set_relay_state(self, appliance, functionality) ==
    IF ~\E i \in 1..Len(self.appliances.elems) :
           self.appliances.elems[i].id = appliance /\ self.appliances.elems[i].relay
    THEN Puts("AttributeError", <<>>)
    ELSE Puts(None, <<APPLIANCES \o ";id=" \o appliance \o "/relay;id=" \o functionality>>)

ControlRules ==
    {<<>>,
     <<PresetsRule>>,
     <<ScheduleRule("r1", "Normal", "L1", "true",
                    Doc(<<Directive(Daytime, "setpoint", "", 20)>>)),
       PresetsRule>>,
     <<ScheduleRule("r1", "Normal", "L1", "true",
                    Doc(<<Directive(Daytime, "setpoint", "", 20)>>)),
       ScheduleRule("r4", "Normal", "L1", "false",
                    Doc(<<Directive(Daytime, "setpoint", "", 17)>>)),
       PresetsRule>>}

ControlAppliances ==
    {<<Appliance("t1", "L1", FALSE, TRUE, NoLogs)>>,
     <<Appliance("t1", "L1", FALSE, TRUE, NoLogs), Appliance("p1", "L1", TRUE, FALSE, NoLogs)>>}

\* A connected Adam or legacy Anna with its documents.
InitControl ==
    /\ \E dialect \in 1..2, appls \in ControlAppliances :
         InitClient(dialect, Doc(appls), Doc(Rooms(appls)))
    /\ InitScanLocals
    /\ InitOut
    /\ InitNoMeasure
    /\ InitNoNet
    /\ d_rules \in ControlRules
    /\ d_logs = <<>>
    /\ d_direct = NoDirect
    /\ d_domain \in {LegacyDomain("on"), ZoneDomain}
    /\ (d_domain = ZoneDomain) = ~smile_legacy
    /\ arg_dev_id = None
    /\ arg_loc_id = None
    /\ period = [start |-> 0, end |-> 0]
    /\ clock = [weekday |-> 0, time |-> 0]

\* The set_* raises, returns False or sends its first PUT.
Begin(operation, puts) ==
    /\ n_pc \in {"idle", "done"}
    /\ n_op' = operation
    /\ n_accepted' = 0
    /\ n_req_attempts' = 0
    /\ IF puts.raised # None
       THEN /\ RaiseIn(operation, puts.raised)
            /\ n_todo' = <<>> /\ n_requested' = <<>> /\ n_req' = NoRequest
       ELSE IF puts.uris = <<>>
       THEN /\ ReturnIn(operation, "False")
            /\ n_todo' = <<>> /\ n_requested' = <<>> /\ n_req' = NoRequest
       ELSE /\ n_pc' = "request"
            /\ n_todo' = puts.uris
            /\ n_requested' = <<puts.uris[1]>>
            /\ n_req' = Request(puts.uris[1], RequestRetry, "put", "data")
            /\ Running
    /\ UNCHANGED <<smile_legacy, smile_type, smile_name, n_retry, n_fetched,
                   n_conn_attempts, n_body, n_cycle, n_stored>>
    /\ UNCHANGED_documents

CallSetScheduleState ==
    \E name \in {"Normal", "Weekend"} :
        Begin("set_schedule_state", set_schedule_state(Self, d_rules, "L1", name))

CallSetPreset ==
    \E location \in {"L1", "L3"}, preset \in {"home", "asleep"} :
        Begin("set_preset", set_preset(Self, d_rules, d_domain, location, preset))

CallSetTemperature ==
    \E functionality \in {None, "f1"} :
        Begin("set_temperature", set_temperature(Self, "L1", functionality))

CallSetRelayState ==
    \E appliance \in {"p1", "t1"} :
        Begin("set_relay_state", set_relay_state(Self, appliance, "f2"))

NextControl ==
    \/ CallSetScheduleState
    \/ CallSetPreset
    \/ CallSetTemperature
    \/ CallSetRelayState
    \/ RequestTimeout
    \/ RequestError
    \/ RequestResponse

SpecControl == InitControl /\ [][NextControl]_vars

-----------------------------------------------------------------------------
(* Claims about scan_thermostats.                                           *)

Max(S) == CHOOSE m \in S : \A n \in S : n <= m

\* The zones the scan has initialised so far.
Zones == {l \in KeySet(s_locations) : "master" \in DOMAIN s_locations.val[l]}

\* The thermostat-class appliances of the appliances document that the scan
\* considers in zone l.
Candidates(l) ==
    {d_appliances.elems[i].id : i \in
        {j \in 1..Len(d_appliances.elems) :
            /\ d_appliances.elems[j].type \in
                 {"thermostat", "zone_thermostat", "thermostatic_radiator_valve"}
            /\ \/ d_appliances.elems[j].location = l
               \/ smile_legacy /\ d_appliances.elems[j].location = None}}

Priority(id) ==
    IF ClassOf[id] = "thermostat" THEN 3
    ELSE IF ClassOf[id] = "zone_thermostat" THEN 2 ELSE 1

\* C1: after the scan, every initialised zone with at least one
\* thermostat-class candidate has one of them as master, master_prio is the
\* highest priority among its candidates and the other candidates are exactly
\* its slaves; a zone thermostat and a radiator valve alone in a zone end as
\* master and only slave.
C1_MasterElected ==
    pc = "done" =>
        \A l \in Zones :
            LET zone == s_locations.val[l]
            IN  /\ Candidates(l) # {} =>
                    /\ zone.master \in Candidates(l)
                    /\ zone.master_prio = Max({Priority(c) : c \in Candidates(l)})
                    /\ zone.master_prio = Priority(zone.master)
                    /\ zone.slaves = Candidates(l) \ {zone.master}
                /\ Candidates(l) = {"z1", "v1"} =>
                    zone.master = "z1" /\ zone.slaves = {"v1"}

\* The radiator valve is scanned first, crowned, and demoted by the zone
\* thermostat of the same zone.
C1_Witness ==
    /\ pc = "done"
    /\ ~smile_legacy
    /\ Len(d_appliances.elems) >= 2
    /\ d_appliances.elems[1].id = "v1"
    /\ "L1" \in Zones
    /\ Candidates("L1") = {"z1", "v1"}
    /\ s_locations.val["L1"].master = "z1"
    /\ s_locations.val["L1"].slaves = {"v1"}

\* C2: in every state during and after the scan, no zone's slaves set holds
\* the zone's current master.
C2_MasterNotSlave ==
    \A l \in Zones : s_locations.val[l].master \notin s_locations.val[l].slaves

\* In the middle of a zone's scan: a master is in place and a former master
\* has been demoted.
C2_Witness ==
    /\ pc = "appliance"
    /\ s_ai <= Len(s_appliances.keys)
    /\ s_locations.val[CurLoc].master = "z1"
    /\ s_locations.val[CurLoc].slaves = {"v1"}

\* The position of a scanned appliance in the order of the scan.
ScanPosition(id) == CHOOSE i \in 1..Len(s_appliances.keys) : s_appliances.keys[i] = id

\* One iteration of the inner loop: appliance k is scanned in the zone whose
\* record goes from `before` to `after`.
ElectionStep(before, after, k, candidate) ==
    /\ after.master_prio >= before.master_prio
    /\ after.master # before.master =>
          /\ candidate
          /\ after.master = k
          /\ Priority(k) > before.master_prio
    /\ candidate /\ Priority(k) <= before.master_prio =>
          /\ after.master = before.master
          /\ after.master_prio = before.master_prio
          /\ k \in after.slaves

\* The master of a scanned zone is the earliest scanned candidate of the
\* highest priority.
EarliestOfHighest(l, master) ==
    /\ master \in Candidates(l)
    /\ \A c \in Candidates(l) : Priority(c) <= Priority(master)
    /\ \A c \in Candidates(l) :
          Priority(c) = Priority(master) => ScanPosition(master) <= ScanPosition(c)

\* C18: during the scan of one zone master_prio never decreases, the master
\* changes only to a candidate whose priority is strictly greater than the
\* current master_prio, a candidate of equal or lower priority goes to
\* slaves, and so the final master of a zone is the earliest scanned of its
\* candidates of the highest priority.
C18_EarliestMasterStays ==
    /\ [][pc = "appliance" /\ s_ai' = s_ai + 1 =>
            ElectionStep(s_locations.val[CurLoc], s_locations'.val[CurLoc],
                         s_appliances.keys[s_ai],
                         s_appliances.keys[s_ai] \in Candidates(CurLoc))]_vars
    /\ [](pc = "done" =>
            \A l \in Zones :
                Candidates(l) # {} => EarliestOfHighest(l, s_locations.val[l].master))

\* Two zone thermostats share a zone: z2 was scanned first and is still the
\* master after z1 was scanned.
C18_Witness ==
    /\ pc = "done"
    /\ "L1" \in Zones
    /\ Candidates("L1") = {"z1", "z2"}
    /\ ScanPosition("z2") < ScanPosition("z1")
    /\ s_locations.val["L1"].master = "z2"
    /\ s_locations.val["L1"].slaves = {"z1"}

\* get_all_devices has returned the device map built on the finished scan.
DevicesOfScan == pc = "devices" /\ last_call = "get_all_devices" /\ ~result.err

\* C26: in the device map get_all_devices returns, every appliance the scan
\* put in the slaves of a zone has class "thermo_sensor" and every master of
\* a zone keeps its class, on legacy and non-legacy dialects.
C26_SlavesAreSensors ==
    DevicesOfScan =>
        \A l \in Zones :
            /\ \A appliance \in s_locations.val[l].slaves :
                  result.devices.val[appliance].class = "thermo_sensor"
            /\ s_locations.val[l].master # None =>
                  result.devices.val[s_locations.val[l].master].class
                      = ClassOf[s_locations.val[l].master]

-----------------------------------------------------------------------------
(* Claims about the topology.                                               *)

DocumentIds(class) ==
    {d_appliances.elems[i].id : i \in
        {j \in 1..Len(d_appliances.elems) : d_appliances.elems[j].type = class}}

AllDocumentIds ==
    {d_appliances.elems[i].id : i \in 1..Len(d_appliances.elems)}

\* C3: no appliance of class open_therm_gateway is a key of the map
\* get_all_appliances returns, nor of the map get_all_devices returns.
C3_NoOpenThermGateway ==
    /\ last_call = "get_all_appliances" /\ ~result.err =>
         KeySet(result.appliances) \cap DocumentIds("open_therm_gateway") = {}
    /\ last_call = "get_all_devices" /\ ~result.err =>
         KeySet(result.devices) \cap DocumentIds("open_therm_gateway") = {}

\* get_all_devices has returned the devices of a document that holds an
\* open_therm_gateway next to other appliances.
C3_Witness ==
    /\ last_call = "get_all_devices"
    /\ ~result.err
    /\ DocumentIds("open_therm_gateway") # {}
    /\ Len(result.devices.keys) = 2

SynthesizedHome(r) ==
    /\ ~r.err
    /\ r.locations.keys = <<LegacyHome>>
    /\ r.home = LegacyHome
    /\ r.locations.val[LegacyHome].types = {"temperature"}
    /\ r.locations.val[LegacyHome].members = AllDocumentIds

SameDevices(r) == result.err = r.err /\ result.devices = r.devices

\* C10: the device map a client returns for a snapshot is the one a fresh
\* client returns for it, whatever the client processed before.
C10_NoCarryOver ==
    last_call = "get_all_devices" => SameDevices(get_all_devices(FreshSelf))

\* The ids of the returned locations that carry the type "home".
MarkedHome(locations) == {l \in KeySet(locations) : "home" \in locations.val[l].types}

\* The pipeline goes through on the snapshot: get_all_devices does not raise.
Accepted == ~get_all_devices(Self).err

\* C16: on every snapshot the pipeline accepts, get_all_locations returns a
\* home location that is not None and is a key of the returned map, and at
\* most one returned location is marked as home.
C16_OneHome ==
    last_call = "get_all_locations" /\ ~result.err /\ Accepted =>
        /\ result.home # None
        /\ result.home \in KeySet(result.locations)
        /\ Cardinality(MarkedHome(result.locations)) <= 1

\* The key get_all_appliances registers the appliance element under
\* (lines 421-426).
RegisteredAs(appliance) ==
    IF appliance.location = None /\ appliance.type = "gateway" THEN gateway_id
    ELSE IF appliance.location = None /\ appliance.type = "heater_central" THEN heater_id
    ELSE appliance.id

\* The elements of the appliances document registered under the key.
ElementsOf(id) ==
    {d_appliances.elems[i] : i \in
        {j \in 1..Len(d_appliances.elems) : RegisteredAs(d_appliances.elems[j]) = id}}

\* C25: in the map get_all_appliances returns, an appliance carries "plug"
\* only if it has the relay actuator itself and "thermostat" only if it has
\* the thermostat actuator itself: tagging an appliance without a location
\* changes no other appliance's types.
C25_IndependentTypes ==
    last_call = "get_all_appliances" /\ ~result.err =>
        \A id \in KeySet(result.appliances) :
            /\ "plug" \in result.appliances.val[id].types
                 => \E a \in ElementsOf(id) : a.relay
            /\ "thermostat" \in result.appliances.val[id].types
                 => \E a \in ElementsOf(id) : a.thermo

-----------------------------------------------------------------------------
(* Claims about the schedule resolver.                                      *)

\* The directives of the schedule rules of the document.
ScheduleDirectives ==
    UNION {{d_rules[i].directives.elems[j] : j \in 1..Len(d_rules[i].directives.elems)} :
           i \in {k \in 1..Len(d_rules) :
                     d_rules[k].tag = "zone_preset_based_on_time_and_presence_with_override"}}

\* The setpoint a directive maps its interval to, literal or preset-derived.
Mapped(directive) ==
    IF directive.key = "preset"
    THEN get_presets(d_rules, arg_loc_id).presets[directive.preset]
    ELSE directive.setpoint

\* The document is one schedule with the one interval `time`, mapped to 20.
SoleInterval(time) ==
    /\ Len(d_rules) = 1
    /\ d_rules[1].directives.elems = <<Directive(time, "setpoint", "", 20)>>

\* Minutes since Monday 00:00.
WeekMinute(day, time) == days[day] * 1440 + time

\* The instant lies in [d1 t1, d2 t2), an interval of the weekly cycle.
Contains(time, moment) ==
    in_between(moment.weekday * 1440 + moment.time,
               WeekMinute(time.d1, time.t1), WeekMinute(time.d2, time.t2))

At(weekday, time) == clock = [weekday |-> weekday, time |-> time]

\* C4: get_schemas lets an interval [d1 t1, d2 t2) determine the schedule
\* setpoint exactly when its day is the current weekday and its window
\* contains the current time: [mo 06:00, mo 22:00) yields its setpoint at
\* mo 10:00 and nothing at mo 23:00, an interval within today that contains
\* now yields its setpoint, and the setpoint returned is always that of an
\* interval containing the current (weekday, time) instant.
C4_IntervalDetermines ==
    last_call = "get_schemas" /\ ~result.err =>
        /\ SoleInterval(Daytime) /\ At(0, 600)
             => result.schedule_temperature = PyFloat(2000)
        /\ SoleInterval(Daytime) /\ At(0, 1380)
             => result.schedule_temperature = PyNone
        /\ \A time \in Intervals :
             /\ SoleInterval(time)
             /\ time.d1 = time.d2 /\ days[time.d1] = clock.weekday
             /\ time.t1 <= clock.time /\ clock.time < time.t2
             => result.schedule_temperature = PyFloat(2000)
        /\ result.schedule_temperature.type = "float"
             => \E d \in ScheduleDirectives :
                   /\ Contains(d.time, clock)
                   /\ result.schedule_temperature.v = 100 * Mapped(d)

\* C5: in_between(now, start, end) is true exactly for the times of the
\* half-open window: from start up to but not including end when
\* start <= end, and outside [end, start) when the window wraps (start > end).
C5_HalfOpenWindow ==
    last_call = "in_between" =>
        (result.value <=>
            IF period.start <= period.end
            THEN clock.time \in period.start..(period.end - 1)
            ELSE clock.time \notin period.end..(period.start - 1))

\* A wrapping window has been asked about a time before its end, and one that
\* does not wrap about its own end.
C5_Witness ==
    /\ last_call = "in_between"
    /\ \/ period.start > period.end /\ clock.time < period.end /\ result.value
       \/ period.start < period.end /\ clock.time = period.end /\ ~result.value

\* The schedule rules of the location asked about whose active flag is "true".
ActiveSchedules ==
    {i \in 1..Len(d_rules) :
        /\ d_rules[i].tag = "zone_preset_based_on_time_and_presence_with_override"
        /\ d_rules[i].location = arg_loc_id
        /\ d_rules[i].active = "true"}

\* C19: get_schemas(loc_id) returns as selected the name of the schedule rule
\* that is associated with loc_id and active when exactly one such rule
\* exists, and no selected schedule when none exists, whatever other tagged
\* rules (inactive, of other locations, without directives) the document
\* holds.
C19_SelectedIsActive ==
    last_call = "get_schemas" /\ ~result.err =>
        /\ ActiveSchedules = {} => result.selected = None
        /\ \A i \in ActiveSchedules :
              ActiveSchedules = {i} => result.selected = d_rules[i].name

\* The active schedule rules of the location asked about that carry the
\* name returned as selected.
SelectedSchedules == {i \in ActiveSchedules : d_rules[i].name = result.selected}

\* The rule has a directive whose interval the code matches with the moment
\* and whose setpoint is the one returned.
SetpointOf(rule) ==
    /\ ~rule.directives.none
    /\ \E j \in 1..Len(rule.directives.elems) :
          /\ Matches(clock, rule.directives.elems[j].time)
          /\ result.schedule_temperature = PyFloat(100 * Mapped(rule.directives.elems[j]))

\* C24: the schedule setpoint get_schemas(loc_id) returns on a non-legacy
\* dialect comes from an interval of the selected schedule, a rule that is
\* associated with loc_id and active; when no schedule is selected the
\* setpoint is none, whatever intervals inactive schedules and schedules of
\* other locations have.
C24_SetpointOfSelected ==
    last_call = "get_schemas" /\ ~result.err =>
        /\ result.selected = None => result.schedule_temperature = PyNone
        /\ result.schedule_temperature # PyNone =>
              \E i \in SelectedSchedules : SetpointOf(d_rules[i])

-----------------------------------------------------------------------------
(* Claims about the measurement normaliser.                                 *)

Formatted == last_call = "_format_measure"

IsText(neg, ip, frac) ==
    /\ measure_text.kind = "num"
    /\ measure_text = Num(neg, ip, frac)

IsWord(w) == measure_text.kind = "word" /\ measure_text.w = w

Returns(type, v) == result.value.type = type /\ result.value.v = v

\* C6: _format_measure tries the integer, the float, then "on"/"off", in
\* that order, and leaves any other text unchanged: an integer literal comes
\* back as that int and never as a float ("2" is the int 2), a decimal text
\* comes back as a rounded float ("2.345" is 2.35, "12.34" is 12.3), "on" is
\* True, "off" is False, and another word is returned as it is.
C6_FormatOrder ==
    Formatted =>
        /\ measure_text.kind = "num" /\ measure_text.frac = <<>>
             => Returns("int", Signed(measure_text, measure_text.ip))
        /\ measure_text.kind = "num" /\ measure_text.frac # <<>>
             => result.value.type = "float"
        /\ IsText(FALSE, 2, <<>>) => Returns("int", 2)
        /\ IsText(FALSE, 2, <<3, 4, 5>>) => Returns("float", 235)
        /\ IsText(FALSE, 12, <<3, 4>>) => Returns("float", 1230)
        /\ IsWord("on") => Returns("bool", TRUE)
        /\ IsWord("off") => Returns("bool", FALSE)
        /\ measure_text.kind = "word" /\ measure_text.w \notin {"on", "off"}
             => Returns("str", measure_text.w)

\* "2.345" has been formatted, as the float 2.35.
C6_Witness ==
    Formatted /\ IsText(FALSE, 2, <<3, 4, 5>>) /\ Returns("float", 235)

Abs(x) == IF x < 0 THEN 0 - x ELSE x

\* The float returned is a multiple of 10^-p within half of 10^-p of the
\* text's value: v/100 against Signed(Units)/10^n, cross-multiplied.
RoundedTo(p) ==
    /\ result.value.type = "float"
    /\ result.value.v % Pow10(2 - p) = 0
    /\ Abs(result.value.v * Pow10(Len(measure_text.frac))
           - 100 * Signed(measure_text, Units(measure_text)))
         <= 5 * Pow10(Len(measure_text.frac) + 1 - p)

\* C7: a decimal text whose magnitude is below 10 comes back rounded to 2
\* decimals, and one whose magnitude is 10 or more rounded to 1 decimal,
\* negative texts included ("-12.34" comes back as -12.3).
C7_RoundsByMagnitude ==
    Formatted /\ measure_text.kind = "num" /\ measure_text.frac # <<>> =>
        IF Units(measure_text) < 10 * Pow10(Len(measure_text.frac))
        THEN RoundedTo(2)
        ELSE RoundedTo(1)

-----------------------------------------------------------------------------
(* Claims about get_appliance_data.                                         *)

Pressure == element.point["central_heater_water_pressure"]

PressureRead ==
    /\ last_call = "get_appliance_data"
    /\ "central_heater_water_pressure" \in DOMAIN element.point

PressureIs(ip, frac) == PressureRead /\ Pressure = Num(FALSE, ip, frac)

\* C8: a central_heater_water_pressure reading greater than 3.5 leaves the
\* device data without a water_pressure key and raises nothing (4.0 is
\* left out); a reading of 3.5 or less is stored, normalised, under
\* water_pressure (2.1 is kept as 2.1, and so is 3.5 itself).
C8_PressureArtifact ==
    PressureRead =>
        /\ ~result.err
        /\ "water_pressure" \in DOMAIN result.value
             <=> 10 * Pressure.ip * Pow10(Len(Pressure.frac))
                   + 10 * DigitsValue(Pressure.frac) <= 35 * Pow10(Len(Pressure.frac))
        /\ "water_pressure" \in DOMAIN result.value
             => result.value["water_pressure"] = _format_measure(Pressure)
        /\ PressureIs(4, <<0>>) => "water_pressure" \notin DOMAIN result.value
        /\ PressureIs(2, <<1>>) => result.value["water_pressure"] = PyFloat(210)
        /\ PressureIs(3, <<5>>) => result.value["water_pressure"] = PyFloat(350)

\* A reading of 4.0 has been left out while the other logs were stored.
C8_Witness ==
    /\ PressureIs(4, <<0>>)
    /\ ~result.err
    /\ "water_pressure" \notin DOMAIN result.value
    /\ "electricity_consumed" \in DOMAIN result.value

\* The loop body for this measurement type ran past its point-log step
\* (neither `continue` of lines 724 and 730 was taken).
LogsRead(measurement) ==
    \/ measurement \notin DOMAIN element.point
    \/ /\ ~(smile_legacy /\ measurement = "domestic_hot_water_state")
       /\ ~(/\ measurement = "central_heater_water_pressure"
            /\ Unrealistic(element.point[measurement]))

\* The value of the log is stored, normalised, under the key.
StoredUnder(key, text) ==
    /\ key \in DOMAIN result.value
    /\ result.value[key] = _format_measure(text)

\* C27: for every measurement type with output name N whose logs are read,
\* the value of its interval log is stored under N_interval and the value
\* of its cumulative log under N_cumulative, whichever of the point,
\* interval and cumulative logs the measurement has and whatever was
\* processed before it.
C27_LogKeys ==
    last_call = "get_appliance_data" /\ ~result.err =>
        \A i \in 1..Len(DEVICE_MEASUREMENTS) :
            LogsRead(DEVICE_MEASUREMENTS[i][1]) =>
                /\ DEVICE_MEASUREMENTS[i][1] \in DOMAIN element.interval =>
                      StoredUnder(DEVICE_MEASUREMENTS[i][2] \o "_interval",
                                  element.interval[DEVICE_MEASUREMENTS[i][1]])
                /\ DEVICE_MEASUREMENTS[i][1] \in DOMAIN element.cumulative =>
                      StoredUnder(DEVICE_MEASUREMENTS[i][2] \o "_cumulative",
                                  element.cumulative[DEVICE_MEASUREMENTS[i][1]])

-----------------------------------------------------------------------------
(* Claims about get_device_data.                                            *)

\* The measurements of the device the last call asked for.
Measured == get_appliance_data(Self, ApplianceLogs(d_logs, arg_dev_id))

\* C20: for a device whose measurements include boiler_state, get_device_data
\* raises no error and its record holds heating_state with the value of
\* intended_boiler_state, and neither boiler_state nor intended_boiler_state.
C20_BoilerStateCollapsed ==
    last_call = "get_device_data" /\ ~Measured.err /\ "boiler_state" \in DOMAIN Measured.data =>
        /\ ~result.err
        /\ "intended_boiler_state" \in DOMAIN Measured.data
        /\ "heating_state" \in DOMAIN result.data
        /\ result.data["heating_state"] = Measured.data["intended_boiler_state"]
        /\ "boiler_state" \notin DOMAIN result.data
        /\ "intended_boiler_state" \notin DOMAIN result.data

SameRecord(r) == result.err = r.err /\ result.data = r.data

\* C11: on unchanged documents and the same moment, a second call of
\* get_all_devices returns the device map of the first, a second call of
\* get_device_data for the same id the record of the first, and neither
\* changes the client any more.
C11_SecondCallEqual ==
    /\ last_call = "get_all_devices" =>
          /\ SameDevices(get_all_devices(Self))
          /\ get_all_devices(Self).self = Self
    /\ last_call = "get_device_data" =>
          /\ SameRecord(get_device_data(Self, Docs, arg_dev_id, clock))
          /\ get_device_data(Self, Docs, arg_dev_id, clock).self = Self

C11_Witness ==
    /\ last_call = "get_device_data"
    /\ ~result.err
    /\ "last_used" \in DOMAIN result.data
    /\ gateway_id # None

\* The last call asked for the gateway device and returned its record.
GatewayRecord ==
    /\ last_call = "get_device_data"
    /\ ~result.err
    /\ \/ get_all_devices(Self).devices.val[arg_dev_id].class = "gateway"
       \/ arg_dev_id = gateway_id

\* The heater appliance has an outdoor_temperature point log of its own.
HeaterReads ==
    /\ heater_id \in DOMAIN d_logs
    /\ "outdoor_temperature" \in DOMAIN d_logs[heater_id].point

\* The home location has an outdoor_temperature point log.
HomeReads == home_location \in DOMAIN d_direct.outdoor_temperature

\* C21: the record of the gateway device holds the heater's own
\* outdoor_temperature reading when there is one, otherwise the home
\* location's reading when there is one, and lacks the key only when there
\* is neither, whatever the value read (0 included).
C21_OutdoorTemperature ==
    GatewayRecord =>
        /\ HeaterReads =>
              /\ "outdoor_temperature" \in DOMAIN result.data
              /\ result.data["outdoor_temperature"]
                    = _format_measure(d_logs[heater_id].point["outdoor_temperature"])
        /\ ~HeaterReads /\ HomeReads =>
              /\ "outdoor_temperature" \in DOMAIN result.data
              /\ result.data["outdoor_temperature"]
                    = ObjectValue(d_direct.outdoor_temperature, home_location)
        /\ ~HeaterReads /\ ~HomeReads => "outdoor_temperature" \notin DOMAIN result.data

-----------------------------------------------------------------------------
(* Claims about connect, request and full_update_device.                    *)

Polling == n_op \in {"connect", "full_update_device"}

DataMissing ==
    n_pc = "done" /\ result.err /\ result.raised \in {"DeviceSetupError", "XMLDataMissingError"}

CycleCompleted == n_pc = "done" /\ ~result.err

\* The documents whose absence is fatal as C12 has it.
FatalAsClaimed(command) ==
    \/ command \in {DOMAIN_OBJECTS, LOCATIONS}
    \/ ~smile_legacy /\ smile_type # "power"

\* C12: full_update_device raises the data-missing error exactly for a
\* missing domain_objects or locations document, on every dialect, and for a
\* missing appliances or direct_objects document on a non-legacy thermostat:
\* a cycle that completes has left none of these missing, and a cycle that
\* raises the error found one of these missing.
C12_FatalDocuments ==
    Polling =>
        /\ CycleCompleted =>
              \A command \in {APPLIANCES, DIRECT_OBJECTS, DOMAIN_OBJECTS, LOCATIONS} :
                  FatalAsClaimed(command) => command \in n_fetched
        /\ DataMissing => FatalAsClaimed(n_todo[1])

\* The response yields a model and a version to look up.
PairDerived(body) ==
    /\ body.vendor \/ body.dsmr
    /\ body.gateway
    /\ body.model # Absent
    /\ body.version.kind \in {"semver", "none"}

KnownDialect(body) ==
    /\ body.model # None
    /\ body.version.kind = "semver"
    /\ (body.model \o "_v" \o body.version.major \o body.version.minor)
           \in {"smile_open_therm_v30", "smile_open_therm_v23", "smile_thermo_v40",
                "smile_thermo_v31", "smile_thermo_v18", "smile_v40", "smile_v33",
                "smile_v25"}

C14_TwoAndThreeAttempts == n_conn_attempts <= 2 /\ n_req_attempts <= 3

\* C14, amended: connect sends at most 3 GETs and request at most 4
\* requests; a connect whose attempts all fail raises ConnectionFailedError
\* after the third, and every failed attempt uses up one of the 2 retries of
\* connect or of the 3 retries of request.
C14_AttemptsBounded ==
    /\ n_conn_attempts <= 3
    /\ n_req_attempts <= 4
    /\ n_op = "connect" /\ n_body = NoBody /\ n_pc = "done"
          /\ result.raised = "ConnectionFailedError" => n_conn_attempts = 3
    /\ n_pc = "connect" => n_conn_attempts + n_retry = 2
    /\ n_pc = "request" => n_req_attempts + n_req.retry = 3

C14_Witness ==
    /\ n_conn_attempts = 3
    /\ n_req_attempts = 4
    /\ n_pc = "done"
    /\ result.err /\ result.raised = "DeviceTimeoutError"

Rank ==
    (APPLIANCES :> 1) @@ (DIRECT_OBJECTS :> 2) @@ (DOMAIN_OBJECTS :> 3) @@ (LOCATIONS :> 4)

\* lines 325-345: the documents full_update_device does not go on without
Mandatory(command) ==
    \/ command \in {DOMAIN_OBJECTS, LOCATIONS}
    \/ smile_type = "power" /\ ~smile_legacy

CycleOf(command) == IF command \in DOMAIN n_stored THEN n_stored[command] ELSE 0

\* The documents the dialect asks the gateway for.
Polled ==
    {command \in {APPLIANCES, DIRECT_OBJECTS, DOMAIN_OBJECTS, LOCATIONS} :
        ~NoRequestFor(command, smile_legacy, smile_type)}

\* C22: after every cycle, failed or not, the documents the client holds
\* all come from one cycle, and a cycle that ended with an error has left
\* none of its own documents in the client.
C22_DocumentsOfOneCycle ==
    Polling /\ n_pc = "done" =>
        /\ \A c1, c2 \in Polled : CycleOf(c1) = CycleOf(c2)
        /\ result.err =>
              \A command \in Polled \cap DOMAIN n_stored : n_stored[command] # n_cycle

-----------------------------------------------------------------------------
(* Claims about the control operations.                                     *)

Controlling ==
    n_op \in {"set_schedule_state", "set_preset", "set_temperature", "set_relay_state"}

\* C15: a control operation that ends in failure (it raises or returns
\* False) has had none of its PUTs accepted by the gateway, and one that
\* returns True has had all of them accepted.
C15_AllOrNothing ==
    Controlling /\ n_pc = "done" =>
        IF ~result.err /\ result.value = "True"
        THEN n_accepted = Len(n_requested)
        ELSE n_accepted = 0

\* request calls itself again after a timeout (line 262).
Retried ==
    /\ n_pc = "request"
    /\ n_pc' = "request"
    /\ n_req'.command = n_req.command
    /\ n_req'.retry = n_req.retry - 1

\* C23: every attempt request makes again after a timeout uses the HTTP
\* method and the body of the attempt before it (the headers are the
\* default ones in every attempt), so a PUT is never sent again as a GET.
C23_RetryKeepsRequest ==
    [][Retried => n_req'.method = n_req.method /\ n_req'.data = n_req.data]_vars

====
